---- MODULE Spec2Model ----
(***************************************************************************)
(* Model of the spreadsheet importer of project_manager                    *)
(* (excel/excel_importer.py, excel_utils.py) and of the domain model it    *)
(* fills (model/base.py, project.py, process.py, models/phase.py, task.py).*)
(*                                                                         *)
(* Text.  A Python str is modelled as a sequence of characters.  An ASCII  *)
(* character is the one-character string; Chars("Task") is the sequence    *)
(* <<"T","a","s","k">>.  The Japanese words the importer looks for are     *)
(* written here in romaji between square brackets, one element per word    *)
(* part ("[kaishi]" is the word for 'start', "[bi]" the suffix 'day'), so  *)
(* that the substring relation between the aliases of the source is kept   *)
(* ("[kaishi]" is a substring of "[kaishi][bi]") and no Latin alias can    *)
(* match inside a Japanese word.  Japanese characters are alphabetic for   *)
(* str.isalpha and unchanged by str.lower, as in Python.                   *)
(*                                                                         *)
(* Cell values.  A cell value is a record [t, s, n, f]: t is the Python    *)
(* type ("none", "str", "num", "date"), s the text of a str, and a number  *)
(* is n + f/2 with f in {0, 1} (so 7.5 is n = 7, f = 1 and -0.5 is         *)
(* n = -1, f = 1); a date is its day number n.                             *)
(***************************************************************************)
EXTENDS Integers, Sequences, FiniteSets, TLC

VARIABLES
    format_type,    \* ExcelImporter.format_type
    workbook,       \* the workbook openpyxl loaded from the file
    pc,             \* "ready" before the call under study, "done" after it
    result          \* the value the call returned

vars == <<format_type, workbook, pc, result>>

-----------------------------------------------------------------------------
(* Bounds of the model *)

MaxSheets == 3      \* sheets per workbook in the format detection runs
MaxRows == 3        \* data rows per sheet in the hierarchy runs

-----------------------------------------------------------------------------
(* Python str *)

Chars(str) == [i \in 1..Len(str) |-> SubSeq(str, i, i)]

UpperCase == Chars("ABCDEFGHIJKLMNOPQRSTUVWXYZ")
LowerCase == Chars("abcdefghijklmnopqrstuvwxyz")
Digits == {"0", "1", "2", "3", "4", "5", "6", "7", "8", "9"}

IsJapanese(c) == Len(c) > 1 /\ SubSeq(c, 1, 1) = "["

LowerOf ==
    [ c \in { UpperCase[i] : i \in 1..26 } |->
        LowerCase[CHOOSE i \in 1..26 : UpperCase[i] = c] ]

LowerChar(c) == IF c \in DOMAIN LowerOf THEN LowerOf[c] ELSE c

\* str.lower()
lower(s) == [i \in 1..Len(s) |-> LowerChar(s[i])]

Letter == { UpperCase[i] : i \in 1..26 } \cup { LowerCase[i] : i \in 1..26 }

IsAlphaChar(c) == c \in Letter \/ IsJapanese(c)

IsDigitChar(c) == c \in Digits

\* str.isalpha(): non-empty and every character alphabetic
isalpha(s) == Len(s) > 0 /\ \A i \in 1..Len(s) : IsAlphaChar(s[i])

\* str.isdigit()
isdigit(s) == Len(s) > 0 /\ \A i \in 1..Len(s) : IsDigitChar(s[i])

\* `sub in s` for two str
Contains(sub, s) ==
    \E i \in 1..(Len(s) - Len(sub) + 1) : SubSeq(s, i, i + Len(sub) - 1) = sub

\* `x in lst` for a list of str
InList(x, lst) == \E i \in 1..Len(lst) : lst[i] = x

-----------------------------------------------------------------------------
(* Cell values and sheets (openpyxl) *)

NoneV == [t |-> "none", s |-> <<>>, n |-> 0, f |-> 0]
StrV(s) == [t |-> "str", s |-> s, n |-> 0, f |-> 0]
NumV(n) == [t |-> "num", s |-> <<>>, n |-> n, f |-> 0]
HalfV(n) == [t |-> "num", s |-> <<>>, n |-> n, f |-> 1]
DateV(d) == [t |-> "date", s |-> <<>>, n |-> d, f |-> 0]

\* Python truth value of a cell value: None, "" and 0 are false
Truthy(v) ==
    CASE v.t = "none" -> FALSE
      [] v.t = "str" -> Len(v.s) > 0
      [] v.t = "num" -> v.n # 0 \/ v.f # 0
      [] OTHER -> TRUE

SetMax(S) == CHOOSE x \in S : \A y \in S : y <= x

\* A sheet is the function from the populated (row, column) pairs to values.
\* Worksheet.max_row, Worksheet.max_column: the populated extent, 1 if empty.
max_row(sheet) ==
    IF DOMAIN sheet = {} THEN 1 ELSE SetMax({rc[1] : rc \in DOMAIN sheet})

max_column(sheet) ==
    IF DOMAIN sheet = {} THEN 1 ELSE SetMax({rc[2] : rc \in DOMAIN sheet})

\* sheet.cell(row=r, column=c).value
cell(sheet, r, c) ==
    IF <<r, c>> \in DOMAIN sheet THEN sheet[<<r, c>>] ELSE NoneV

EmptySheet == [rc \in {} |-> NoneV]

\* A workbook: the sheet names in file order, their sheets, the active index.
Workbook(names, sheets) == [sheetnames |-> names, sheets |-> sheets, active |-> 1]

\* workbook[name]
SheetOf(wb, name) ==
    wb.sheets[CHOOSE i \in 1..Len(wb.sheetnames) : wb.sheetnames[i] = name]

\* workbook.active
ActiveSheet(wb) == wb.sheets[wb.active]

-----------------------------------------------------------------------------
(* The literals of the source *)

SCHEDULE_JA == <<"[sukejuuru]">>       \* the sheet name 'schedule'
INPUT_JA == <<"[nyuuryoku]">>          \* the sheet name 'input'
TASK_JA == <<"[tasuku]">>
RESOURCE_JA == <<"[risoosu]">>
PROJECT_JA == <<"[purojekuto]">>
PLAN_JA == <<"[keikaku]">>

TaskSheetNames == <<Chars("Tasks"), TASK_JA, Chars("Task List")>>
ResourceSheetNames == <<Chars("Resources"), RESOURCE_JA>>
SimpleSheetNames == <<Chars("Project"), PROJECT_JA, Chars("Tasks"), TASK_JA>>

-----------------------------------------------------------------------------
(* ExcelImporter.detect_format *)

\* A variant of detect_format: the standard-like test is made before the simple test.
detect_format_like_first(wb) ==
    LET sheet_names == wb.sheetnames
        has(lst) == \E i \in 1..Len(lst) : InList(lst[i], sheet_names)
        anyContains(kw) ==
            \E i \in 1..Len(sheet_names) : Contains(kw, sheet_names[i])
    IN  IF InList(SCHEDULE_JA, sheet_names) /\ InList(INPUT_JA, sheet_names)
        THEN "standard"
        ELSE IF has(TaskSheetNames) /\ has(ResourceSheetNames)
        THEN "ms_project"
        ELSE IF anyContains(SCHEDULE_JA) \/ anyContains(PLAN_JA)
        THEN "standard_like"
        ELSE "simple"

\* A variant of detect_format: only the first sheet is looked at for the standard-like names.
detect_format_first_sheet(wb) ==
    LET sheet_names == wb.sheetnames
        has(lst) == \E i \in 1..Len(lst) : InList(lst[i], sheet_names)
    IN  IF InList(SCHEDULE_JA, sheet_names) /\ InList(INPUT_JA, sheet_names)
        THEN "standard"
        ELSE IF has(TaskSheetNames) /\ has(ResourceSheetNames)
        THEN "ms_project"
        ELSE IF has(SimpleSheetNames)
        THEN "simple"
        ELSE IF Len(sheet_names) > 0
                /\ (Contains(SCHEDULE_JA, sheet_names[1])
                    \/ Contains(PLAN_JA, sheet_names[1]))
        THEN "standard_like"
        ELSE "simple"

detect_format(wb) ==
    LET sheet_names == wb.sheetnames
        has(lst) == \E i \in 1..Len(lst) : InList(lst[i], sheet_names)
        anyContains(kw) ==
            \E i \in 1..Len(sheet_names) : Contains(kw, sheet_names[i])
    IN  IF InList(SCHEDULE_JA, sheet_names) /\ InList(INPUT_JA, sheet_names)
        THEN "standard"
        ELSE IF has(TaskSheetNames) /\ has(ResourceSheetNames)
        THEN "ms_project"
        ELSE IF has(SimpleSheetNames)
        THEN "simple"
        ELSE IF anyContains(SCHEDULE_JA) \/ anyContains(PLAN_JA)
        THEN "standard_like"
        ELSE "simple"

-----------------------------------------------------------------------------
(* Format detection on its own: the workbook is any list of at most        *)
(* MaxSheets distinct sheet names of the pool, detect_format is applied.   *)

SheetNamePool ==
    { SCHEDULE_JA, INPUT_JA, Chars("Tasks"), TASK_JA, Chars("Task List"),
      Chars("Resources"), RESOURCE_JA, Chars("Project"), PROJECT_JA,
      SCHEDULE_JA \o Chars("2"), PLAN_JA \o <<"[sho]">>,
      Chars("Sheet1"), Chars("tasks") }

\* the lists of k names of the pool; a workbook never holds two sheets whose
\* names differ only by case
RECURSIVE NameLists(_)
NameLists(k) ==
    IF k = 0 THEN {<<>>}
    ELSE { Append(l, x) : l \in NameLists(k - 1), x \in SheetNamePool }

DistinctNameLists ==
    { l \in UNION { NameLists(k) : k \in 1..MaxSheets } :
        \A i, j \in 1..Len(l) : i # j => lower(l[i]) # lower(l[j]) }

DetectWorkbooks ==
    { Workbook(l, [i \in 1..Len(l) |-> EmptySheet]) : l \in DistinctNameLists }

InitDetect ==
    /\ format_type = "auto"
    /\ workbook \in DetectWorkbooks
    /\ pc = "ready"
    /\ result = "pending"

DetectFormat ==
    /\ pc = "ready"
    /\ result' = detect_format(workbook)
    /\ pc' = "done"
    /\ UNCHANGED <<format_type, workbook>>

NextDetect == DetectFormat

SpecDetect == InitDetect /\ [][NextDetect]_vars

(* C7: detect_format is total and follows the first-match-wins order.      *)
(* For every list of sheet names the value returned is one of the four     *)
(* variants, and it is: standard if both the 'schedule' and the 'input'    *)
(* sheet are present; else ms_project if a Tasks alias and a Resources     *)
(* alias are present; else simple if a Project/Tasks alias is present;     *)
(* else standard_like if a name contains 'schedule' or 'plan'; else simple.*)
SheetNameSet == { workbook.sheetnames[i] : i \in 1..Len(workbook.sheetnames) }

Thm_C7_DetectOrder ==
    pc = "done" =>
        /\ result \in {"standard", "ms_project", "simple", "standard_like"}
        /\ result =
             CASE {SCHEDULE_JA, INPUT_JA} \subseteq SheetNameSet -> "standard"
               [] /\ ~({SCHEDULE_JA, INPUT_JA} \subseteq SheetNameSet)
                  /\ SheetNameSet \cap {Chars("Tasks"), TASK_JA, Chars("Task List")} # {}
                  /\ SheetNameSet \cap {Chars("Resources"), RESOURCE_JA} # {}
                    -> "ms_project"
               [] OTHER ->
                    IF SheetNameSet \cap
                         {Chars("Project"), PROJECT_JA, Chars("Tasks"), TASK_JA} # {}
                    THEN "simple"
                    ELSE IF \E nm \in SheetNameSet :
                              Contains(SCHEDULE_JA, nm) \/ Contains(PLAN_JA, nm)
                    THEN "standard_like"
                    ELSE "simple"

\* A Project/Tasks alias and a name containing 'schedule' are both present:
\* the earlier rule wins.
Wit_C7_SimpleBeforeLike ==
    /\ pc = "done"
    /\ result = "simple"
    /\ \E nm \in SheetNameSet : Contains(SCHEDULE_JA, nm) \/ Contains(PLAN_JA, nm)
    /\ SheetNameSet \cap {Chars("Project"), PROJECT_JA, Chars("Tasks"), TASK_JA} # {}

(* C8: detect_format depends only on the set of sheet names: every         *)
(* permutation of the list of sheet names gives the same variant.          *)
Permuted(wb, p) ==
    Workbook([i \in 1..Len(wb.sheetnames) |-> wb.sheetnames[p[i]]],
             [i \in 1..Len(wb.sheetnames) |-> wb.sheets[p[i]]])

Thm_C8_DetectPermutation ==
    pc = "done" =>
        \A p \in Permutations(1..Len(workbook.sheetnames)) :
            detect_format(Permuted(workbook, p)) = result

\* The name that decides the variant is not the first sheet of the workbook.
Wit_C8_DecidingSheetNotFirst ==
    /\ pc = "done"
    /\ result = "standard_like"
    /\ Len(workbook.sheetnames) >= 2
    /\ ~Contains(SCHEDULE_JA, workbook.sheetnames[1])
    /\ ~Contains(PLAN_JA, workbook.sheetnames[1])

-----------------------------------------------------------------------------
(* ExcelImporter._find_header_row and ExcelImporter._get_column_indices    *)

HeaderRowLimit == 20    \* range(1, min(20, sheet.max_row + 1))
HeaderColLimit == 15    \* range(1, min(15, sheet.max_column + 1))
HeaderThreshold == 3    \* keywords_found >= 3
RoleColLimit == 20      \* range(1, min(20, sheet.max_column + 1))

Min(a, b) == IF a <= b THEN a ELSE b

\* range(a, b): the integers a, ..., b - 1
Range(a, b) == a..(b - 1)

header_keywords ==
    << <<"[namae]">>, <<"[tasuku]">>, <<"[kaishi]">>, <<"[shuuryou]">>,
       <<"[tantou]">>, <<"[shinchoku]">>, Chars("task"), Chars("name"),
       Chars("start"), Chars("end"), Chars("resource"), Chars("progress") >>

\* the cell counts once if it is a non-empty str holding some keyword
HeaderCellHit(v) ==
    /\ Truthy(v)
    /\ v.t = "str"
    /\ LET cell_lower == lower(v.s)
       IN  \E k \in 1..Len(header_keywords) : Contains(header_keywords[k], cell_lower)

\* keywords_found of one row
KeywordsFound(sheet, row) ==
    Cardinality({ col \in Range(1, Min(HeaderColLimit, max_column(sheet) + 1)) :
                    HeaderCellHit(cell(sheet, row, col)) })

\* The return value; None is written 0 (rows are numbered from 1).
_find_header_row(sheet) ==
    LET rows == { row \in Range(1, Min(HeaderRowLimit, max_row(sheet) + 1)) :
                    KeywordsFound(sheet, row) >= HeaderThreshold }
    IN  IF rows = {} THEN 0 ELSE CHOOSE r \in rows : \A q \in rows : r <= q

\* column_mappings, in the order of the dict literal
column_mappings ==
    << [key |-> "id",
        aliases |-> << Chars("id"), <<"[bangou]">>, Chars("no"), Chars("no."),
                       Chars("wbs"), Chars("code") >>],
       [key |-> "name",
        aliases |-> << Chars("name"), <<"[namae]">>, <<"[tasuku]">>, Chars("task"),
                       <<"[sagyou]">>, <<"[koumoku]">>, <<"[naiyou]">>,
                       Chars("title") >>],
       [key |-> "assignee",
        aliases |-> << Chars("assignee"), <<"[tantou]">>, <<"[tantou]", "[sha]">>,
                       Chars("resource"), <<"[risoosu]">>,
                       <<"[sekinin]", "[sha]">>, <<"[tantou]", "[busho]">> >>],
       [key |-> "progress",
        aliases |-> << Chars("progress"), <<"[shinchoku]">>,
                       <<"[shinchoku]", "[ritsu]">>, Chars("%"), <<"[kanryou]">>,
                       Chars("completion") >>],
       [key |-> "start_date",
        aliases |-> << Chars("start"), <<"[kaishi]">>, <<"[kaishi]", "[bi]">>,
                       <<"[chakushu]">>, <<"[chakushu]", "[bi]">> >>],
       [key |-> "end_date",
        aliases |-> << Chars("end"), <<"[shuuryou]">>, <<"[shuuryou]", "[bi]">>,
                       <<"[ki]", "[bi]">>, <<"[ki]", "[gen]">>, <<"[nou]", "[ki]">>,
                       <<"[kanryou]", "[bi]">>, Chars("deadline"), Chars("due") >>],
       [key |-> "estimated_hours",
        aliases |-> << Chars("estimate"), <<"[yosou]">>, <<"[mitsumori]">>,
                       <<"[kousuu]">>, <<"[keikaku]", "[jikan]">>,
                       <<"[yotei]", "[jikan]">> >>],
       [key |-> "actual_hours",
        aliases |-> << Chars("actual"), <<"[jitsu]", "[seki]">>,
                       <<"[jitsu]", "[kousuu]">>, <<"[jitsu]", "[jikan]">>,
                       <<"[jitsu]", "[sagyou]", "[jikan]">> >>] >>

\* str(value) of a cell value that is a str or a number
PyStr(v) ==
    CASE v.t = "str" -> v.s
      [] v.t = "num" /\ v.f = 0 -> Chars(ToString(v.n))
      [] v.t = "num" /\ v.f = 1 /\ v.n >= 0 -> Chars(ToString(v.n)) \o Chars(".5")
      [] v.t = "num" /\ v.f = 1 /\ v.n < 0 ->
            Chars("-") \o Chars(ToString(-v.n - 1)) \o Chars(".5")

\* the header cell matches some alias of the mapping
RoleMatches(mapping, v) ==
    /\ Truthy(v)
    /\ LET cell_lower == lower(PyStr(v))
       IN  \E a \in 1..Len(mapping.aliases) : Contains(mapping.aliases[a], cell_lower)

\* The column recorded for a role after the loop over the columns: each match
\* assigns column_indices[key] = col, so the last matching column stays
\* (0: the key is absent).
RoleColumn(sheet, header_row, mapping) ==
    LET cols == { col \in Range(1, Min(RoleColLimit, max_column(sheet) + 1)) :
                    RoleMatches(mapping, cell(sheet, header_row, col)) }
    IN  IF cols = {} THEN 0 ELSE SetMax(cols)

RoleKeys == { column_mappings[m].key : m \in 1..Len(column_mappings) }

MappingOf(key) ==
    column_mappings[CHOOSE m \in 1..Len(column_mappings) : column_mappings[m].key = key]

\* The dict returned: a function from the keys present to their column.
_get_column_indices(sheet, header_row) ==
    LET recorded == [ key \in RoleKeys |-> RoleColumn(sheet, header_row, MappingOf(key)) ]
    IN  [ key \in { k \in RoleKeys : recorded[k] # 0 } |-> recorded[key] ]

-----------------------------------------------------------------------------
(* Header location and role assignment on their own: a one-sheet workbook, *)
(* _find_header_row and, if a header row is found, _get_column_indices.    *)

MaxHeaderCols == 4      \* header cells per sheet in the role assignment runs

\* the cells of one row: texts[i] at column cols[i]
RowOf(r, cols, texts) ==
    [ rc \in { <<r, cols[i]>> : i \in 1..Len(cols) } |->
        StrV(texts[CHOOSE i \in 1..Len(cols) : cols[i] = rc[2]]) ]

HeaderRowChoices == {1, 2, HeaderRowLimit - 1, HeaderRowLimit, HeaderRowLimit + 1}

HeaderColChoices ==
    { <<1, 2, 3>>, <<2, 3, HeaderColLimit - 1>>, <<2, 3, HeaderColLimit>>,
      <<2, 3, HeaderColLimit + 1>> }

HeaderTextChoices ==
    { <<Chars("Task"), Chars("Start"), Chars("End")>>,
      <<Chars("TASK"), Chars("START DATE"), Chars("END DATE")>>,
      <<Chars("Task"), Chars("Task"), Chars("Subtask")>>,
      <<Chars("Task"), Chars("Start"), Chars("Owner")>>,
      <<Chars("Task Name"), Chars("Start"), Chars("Owner")>>,
      <<<<"[namae]">>, <<"[kaishi]", "[bi]">>, <<"[shuuryou]", "[bi]">>>> }

\* one candidate header row, with or without a data row under it
HeaderSheets ==
    { RowOf(r, cols, texts) @@
      (IF below THEN RowOf(r + 1, <<1, 2>>, <<Chars("A"), Chars("Design")>>)
       ELSE EmptySheet) :
        r \in HeaderRowChoices, cols \in HeaderColChoices,
        texts \in HeaderTextChoices, below \in BOOLEAN }

RoleHeaderPool ==
    { Chars("Task"), Chars("Name"), Chars("Start"), Chars("End"),
      <<"[tantou]", "[sha]">>, Chars("Progress"), Chars("Task ID"),
      <<"[kanryou]", "[bi]">> }

RECURSIVE HeaderLists(_)
HeaderLists(k) ==
    IF k = 0 THEN {<<>>}
    ELSE { Append(l, x) : l \in HeaderLists(k - 1), x \in RoleHeaderPool }

\* a header row in row 1, columns 1.., that _find_header_row accepts
RoleSheets ==
    { sh \in { RowOf(1, [i \in 1..Len(l) |-> i], l) :
                l \in UNION { HeaderLists(k) : k \in HeaderThreshold..MaxHeaderCols } } :
        _find_header_row(sh) = 1 }

HeaderWorkbooks ==
    { Workbook(<<Chars("Sheet1")>>, <<sh>>) : sh \in HeaderSheets \cup RoleSheets }

NoColumns == [k \in {} |-> 0]

InitHeader ==
    /\ format_type = "auto"
    /\ workbook \in HeaderWorkbooks
    /\ pc = "ready"
    /\ result = [header_row |-> 0, column_indices |-> NoColumns]

\* header_row = self._find_header_row(main_sheet)
FindHeaderRow ==
    /\ pc = "ready"
    /\ LET header_row == _find_header_row(ActiveSheet(workbook))
       IN  /\ result' = [result EXCEPT !.header_row = header_row]
           /\ pc' = IF header_row = 0 THEN "done" ELSE "header"
    /\ UNCHANGED <<format_type, workbook>>

\* column_indices = self._get_column_indices(main_sheet, header_row)
GetColumnIndices ==
    /\ pc = "header"
    /\ result' = [result EXCEPT !.column_indices =
                    _get_column_indices(ActiveSheet(workbook), result.header_row)]
    /\ pc' = "done"
    /\ UNCHANGED <<format_type, workbook>>

NextHeader == FindHeaderRow \/ GetColumnIndices

SpecHeader == InitHeader /\ [][NextHeader]_vars

(* C9: when two header columns both match the alias list of the same role, *)
(* the role stays mapped to the earlier (lower-index) column.              *)
Cex_C9_EarlierColumnKept ==
    pc = "done" /\ result.header_row # 0 =>
        \A key \in DOMAIN result.column_indices :
            \A col \in 1..max_column(ActiveSheet(workbook)) :
                RoleMatches(MappingOf(key),
                            cell(ActiveSheet(workbook), result.header_row, col))
                    => result.column_indices[key] <= col

(* C24: role assignment gives each header cell at most one role: no column *)
(* is recorded under two different roles (a header 'Task ID' does not make *)
(* one column both Identifier and Name, a header 'completion date' does    *)
(* not make one column both Progress and EndDate).                         *)
Cex_C24_OneRolePerColumn ==
    pc = "done" =>
        \A key, other \in DOMAIN result.column_indices :
            key # other => result.column_indices[key] # result.column_indices[other]

(* C10: _find_header_row returns the lowest row r among the first 20 rows  *)
(* whose cells in the first 15 columns hit at least 3 distinct header      *)
(* keywords, and 'not found' (0) when there is no such row.                *)
DistinctKeywordsHit(sheet, row) ==
    { k \in 1..Len(header_keywords) :
        \E col \in 1..Min(HeaderColLimit, max_column(sheet)) :
            LET v == cell(sheet, row, col)
            IN  v.t = "str" /\ Contains(header_keywords[k], lower(v.s)) }

ClaimedHeaderRow(sheet) ==
    LET rows == { row \in 1..Min(HeaderRowLimit, max_row(sheet)) :
                    Cardinality(DistinctKeywordsHit(sheet, row)) >= HeaderThreshold }
    IN  IF rows = {} THEN 0 ELSE CHOOSE r \in rows : \A q \in rows : r <= q

Cex_C10_HeaderRule ==
    pc # "ready" => result.header_row = ClaimedHeaderRow(ActiveSheet(workbook))

-----------------------------------------------------------------------------
(* The domain model: BaseEntity, Project, Phase, Process, Task.            *)
(* An entity's children list is a sequence.  The field row stands for the  *)
(* identity of the object (BaseEntity.id is a fresh uuid): it is the sheet *)
(* row the object was built from, 0 for an object the importer makes up.   *)
(* A name is kept as the cell value it was given (a str, or the raw value  *)
(* where the importer passes the cell through).                            *)

NoneResult == [kind |-> "None"]

Project(name, description) ==
    [kind |-> "Project", name |-> name, description |-> description, phases |-> <<>>]

Phase(name, row) == [name |-> name, row |-> row, processes |-> <<>>]

\* a date that is not set (None), and datetime(year, month, day, hour,
\* minute, second), the fields being valid
NoneDate ==
    [t |-> "none", year |-> 0, month |-> 0, day |-> 0,
     hour |-> 0, minute |-> 0, second |-> 0]

datetime(year, month, day, hour, minute, second) ==
    [t |-> "datetime", year |-> year, month |-> month, day |-> day,
     hour |-> hour, minute |-> minute, second |-> second]

\* the float n + f/2 of the hours fields (f is 0 or 1)
Hours(n, f) == [n |-> n, f |-> f]

\* the float num / den of a progress, in lowest terms
RECURSIVE GCD(_, _)
GCD(a, b) == IF b = 0 THEN a ELSE GCD(b, a % b)

Ratio(num, den) == [num |-> num \div GCD(num, den), den |-> den \div GCD(num, den)]

\* the tasks of a list of statuses that have a status
CountOf(statuses, status) ==
    Cardinality({ k \in 1..Len(statuses) : statuses[k] = status })

\* Process._update_progress: the progress it stores for children of these
\* statuses
_update_progress(statuses) ==
    IF statuses = <<>> THEN Ratio(0, 1)
    ELSE IF Len(statuses) - CountOf(statuses, "IMPOSSIBLE") > 0
    THEN Ratio(CountOf(statuses, "COMPLETED") * 100,
               Len(statuses) - CountOf(statuses, "IMPOSSIBLE"))
    ELSE Ratio(0, 1)

Process(name, assignee, row) ==
    [name |-> name, assignee |-> assignee, row |-> row, tasks |-> <<>>,
     progress |-> Ratio(0, 1),
     start_date |-> NoneDate, end_date |-> NoneDate,
     estimated_hours |-> Hours(0, 0), actual_hours |-> Hours(0, 0)]

\* Process.set_start_date, Process.set_end_date
set_start_date(process, start_date) == [process EXCEPT !.start_date = start_date]
set_end_date(process, end_date) == [process EXCEPT !.end_date = end_date]

\* max(0.0, x)
NotBelowZero(x) == IF x.n < 0 THEN Hours(0, 0) ELSE x

\* Process.update_hours with both arguments given
update_hours(process, estimated_hours, actual_hours) ==
    [process EXCEPT !.estimated_hours = NotBelowZero(estimated_hours),
                    !.actual_hours = NotBelowZero(actual_hours)]

Task(name, status) == [name |-> name, status |-> status]

\* Project.add_phase -> BaseEntity.add_child
add_phase(project, phase) == [project EXCEPT !.phases = Append(@, phase)]

\* Phase.add_process, on the phase at index pi of the project
add_process(project, pi, process) ==
    [project EXCEPT !.phases[pi].processes = Append(@, process)]

\* the statuses of a list of tasks
StatusesOf(tasks) == [k \in 1..Len(tasks) |-> tasks[k].status]

\* A variant of add_task: the child is added and the progress is left as it
\* was.
add_task_progress_kept(process, task) ==
    [process EXCEPT !.tasks = Append(@, task)]

\* Process.add_task: add_child, then _update_progress
add_task(process, task) ==
    [process EXCEPT !.tasks = Append(@, task),
                    !.progress = _update_progress(StatusesOf(Append(process.tasks, task)))]

\* Project.get_phases
get_phases(project) == project.phases

-----------------------------------------------------------------------------
(* More of Python str *)

IsSpaceChar(c) == c \in {" ", "\t", "\n"}

\* str.strip()
RECURSIVE lstrip(_)
lstrip(s) == IF Len(s) > 0 /\ IsSpaceChar(Head(s)) THEN lstrip(Tail(s)) ELSE s

RECURSIVE rstrip(_)
rstrip(s) ==
    IF Len(s) > 0 /\ IsSpaceChar(s[Len(s)])
    THEN rstrip(SubSeq(s, 1, Len(s) - 1))
    ELSE s

strip(s) == rstrip(lstrip(s))

\* str.count(sub): the non-overlapping occurrences, from the left
RECURSIVE count(_, _)
count(s, sub) ==
    IF Len(s) < Len(sub) THEN 0
    ELSE IF SubSeq(s, 1, Len(sub)) = sub
         THEN 1 + count(SubSeq(s, Len(sub) + 1, Len(s)), sub)
         ELSE count(Tail(s), sub)

\* the number of characters of the Japanese words written in romaji here
JapaneseLen ==
    [ w \in { "[sukejuuru]", "[purojekuto]" } |-> 6 ] @@
    [ w \in { "[indento]" } |-> 5 ] @@
    [ w \in { "[risoosu]", "[taitoru]" } |-> 4 ] @@
    [ w \in { "[tasuku]", "[shiito]", "[fe-zu]" } |-> 3 ] @@
    [ w \in { "[nyuuryoku]", "[keikaku]", "[namae]", "[kaishi]", "[shuuryou]",
              "[tantou]", "[shinchoku]", "[bangou]", "[sagyou]", "[koumoku]",
              "[naiyou]", "[sekinin]", "[busho]", "[kanryou]", "[chakushu]",
              "[yosou]", "[mitsumori]", "[kousuu]", "[jikan]", "[yotei]",
              "[kaisou]", "[mibunrui]", "[mein]" } |-> 2 ] @@
    [ w \in { "[sha]", "[ritsu]", "[bi]", "[ki]", "[gen]", "[nou]", "[jitsu]",
              "[seki]", "[sho]" } |-> 1 ]

RECURSIVE len(_)
\* len(s) of a str
len(s) ==
    IF s = <<>> THEN 0
    ELSE (IF IsJapanese(Head(s)) THEN JapaneseLen[Head(s)] ELSE 1) + len(Tail(s))

\* the first pair of a set of (row, column) pairs in reading order
FirstCell(S) ==
    CHOOSE rc \in S :
        \A o \in S : rc[1] < o[1] \/ (rc[1] = o[1] /\ rc[2] <= o[2])

-----------------------------------------------------------------------------
(* ExcelImporter._find_project_name; None is written <<>> (a name that is  *)
(* returned is never the empty text).                                      *)

project_keywords ==
    << <<"[purojekuto]">>, Chars("project"), Chars("title"), <<"[taitoru]">>,
       <<"[namae]">> >>

_find_project_name(sheet) ==
    LET labelled ==
            { rc \in Range(1, Min(10, max_row(sheet) + 1))
                       \X Range(1, Min(5, max_column(sheet) + 1)) :
                LET label_cell == cell(sheet, rc[1], rc[2])
                IN  /\ Truthy(label_cell)
                    /\ label_cell.t = "str"
                    /\ \E k \in 1..Len(project_keywords) :
                            Contains(project_keywords[k], lower(label_cell.s))
                    /\ Truthy(cell(sheet, rc[1], rc[2] + 1)) }
        prominent ==
            { rc \in Range(1, Min(5, max_row(sheet) + 1))
                       \X Range(1, Min(5, max_column(sheet) + 1)) :
                LET value == cell(sheet, rc[1], rc[2])
                IN  Truthy(value) /\ value.t = "str" /\ len(value.s) > 3 }
    IN  IF labelled # {}
        THEN LET rc == FirstCell(labelled)
             IN  PyStr(cell(sheet, rc[1], rc[2] + 1))
        ELSE IF prominent # {}
        THEN LET rc == FirstCell(prominent) IN cell(sheet, rc[1], rc[2]).s
        ELSE <<>>

-----------------------------------------------------------------------------
(* The texts the importer makes up *)

MAIN_PHASE == StrV(<<"[mein]", "[fe-zu]">>)             \* 'main phase'
UNCLASSIFIED_PHASE == StrV(<<"[mibunrui]", "[fe-zu]">>) \* 'unclassified phase'
DEFAULT_TASK_SUFFIX == Chars(" (") \o <<"[deforuto]", "[tasuku]">> \o Chars(")")
COMPLETED_PART_SUFFIX == Chars(" (") \o <<"[kanryou]", "[bubun]">> \o Chars(")")
REMAINING_PART_SUFFIX == Chars(" (") \o <<"[nokori]", "[bubun]">> \o Chars(")")
AUTO_GENERATED_SUFFIX == Chars(" (") \o <<"[jidou]", "[seisei]">> \o Chars(")")
REMAINING_WORK_SUFFIX == Chars(" (") \o <<"[nokori]", "[sagyou]">> \o Chars(")")

\* the descriptions the importers give a project: 'imported from Excel',
\* 'imported from the MS Project form', 'imported from the simple format',
\* 'imported from the similar format'
DESCRIPTION_STANDARD ==
    StrV(Chars("Excel") \o <<"[kara]", "[inpooto]", "[saremashita]">>)
DESCRIPTION_MS_PROJECT ==
    StrV(Chars("MS Project") \o <<"[keishiki]", "[kara]", "[inpooto]", "[saremashita]">>)
DESCRIPTION_SIMPLE ==
    StrV(<<"[shinpuru]", "[foomatto]", "[kara]", "[inpooto]", "[saremashita]">>)
DESCRIPTION_STANDARD_LIKE ==
    StrV(<<"[ruiji]", "[foomatto]", "[kara]", "[inpooto]", "[saremashita]">>)

DEFAULT_NAME_STANDARD ==
    StrV(Chars("Excel") \o <<"[kara]", "[inpooto]", "[shita]", "[purojekuto]">>)
DEFAULT_NAME_MS_PROJECT ==
    StrV(Chars("MS Project") \o <<"[kara]", "[inpooto]", "[shita]", "[purojekuto]">>)
DEFAULT_NAME_SIMPLE ==
    StrV(<<"[shinpuru]", "[foomatto]", "[kara]", "[inpooto]", "[shita]",
           "[purojekuto]">>)
DEFAULT_NAME_STANDARD_LIKE ==
    StrV(<<"[sukejuuru]", "[kara]", "[inpooto]", "[shita]", "[purojekuto]">>)

-----------------------------------------------------------------------------
(* ExcelImporter._import_simple_tasks: the unstructured import of columns  *)
(* 1 and 2 into the phase at index pi.                                     *)

\* v and isinstance(v, str) and len(v.strip()) > 0
ValidText(v) == Truthy(v) /\ v.t = "str" /\ Len(strip(v.s)) > 0

\* A variant of the row: the process is always named after column 2 when
\* column 2 holds a text.
SimpleRow_named_after_task(project, pi, sheet, row) ==
    LET col1 == cell(sheet, row, 1)
        col2 == cell(sheet, row, 2)
    IN  IF ValidText(col2)
        THEN add_process(project, pi,
                 add_task(Process(StrV(strip(col2.s)), StrV(<<>>), row),
                          Task(StrV(strip(col2.s)), "NOT_STARTED")))
        ELSE IF ValidText(col1)
        THEN add_process(project, pi,
                 add_task(Process(StrV(strip(col1.s)), StrV(<<>>), row),
                          Task(StrV(strip(col1.s) \o DEFAULT_TASK_SUFFIX),
                               "NOT_STARTED")))
        ELSE project

SimpleRow(project, pi, sheet, row) ==
    LET col1 == cell(sheet, row, 1)
        col2 == cell(sheet, row, 2)
    IN  IF ValidText(col2)
        THEN LET task_name == strip(col2.s)
                 process_name ==
                     IF ValidText(col1) THEN strip(col1.s) ELSE task_name
             IN  add_process(project, pi,
                     add_task(Process(StrV(process_name), StrV(<<>>), row),
                              Task(StrV(task_name), "NOT_STARTED")))
        ELSE IF ValidText(col1)
        THEN LET process_name == strip(col1.s)
             IN  add_process(project, pi,
                     add_task(Process(StrV(process_name), StrV(<<>>), row),
                              Task(StrV(process_name \o DEFAULT_TASK_SUFFIX),
                                   "NOT_STARTED")))
        ELSE project

RECURSIVE SimpleRows(_, _, _, _, _)
SimpleRows(project, pi, sheet, row, last) ==
    IF row > last THEN project
    ELSE SimpleRows(SimpleRow(project, pi, sheet, row), pi, sheet, row + 1, last)

_import_simple_tasks(project, pi, sheet) ==
    SimpleRows(project, pi, sheet, 1, max_row(sheet))

-----------------------------------------------------------------------------
(* float(text) for the texts [sign]digits[.digits] whose value is a whole  *)
(* or a half number; the other forms float() accepts (exponents, inf, nan, *)
(* underscores) do not occur in the sheets of this development.            *)

DigitValue(c) == CHOOSE d \in 0..9 : ToString(d) = c

RECURSIVE ParseNat(_)
ParseNat(s) ==
    IF s = <<>> THEN 0
    ELSE 10 * ParseNat(SubSeq(s, 1, Len(s) - 1)) + DigitValue(s[Len(s)])

AllDigits(s) == \A i \in 1..Len(s) : IsDigitChar(s[i])

DotAt(s) == IF \E i \in 1..Len(s) : s[i] = "."
            THEN CHOOSE i \in 1..Len(s) : s[i] = "." /\ \A j \in 1..(i - 1) : s[j] # "."
            ELSE Len(s) + 1

\* the text after its sign
Unsigned(t) == IF Len(t) > 0 /\ Head(t) \in {"-", "+"} THEN Tail(t) ELSE t

\* the value of the digits whole.frac, negated when neg
FloatValue(neg, whole, frac) ==
    LET half == CASE \A i \in 1..Len(frac) : frac[i] = "0" -> 0
                  [] /\ Len(frac) > 0 /\ frac[1] = "5"
                     /\ \A i \in 2..Len(frac) : frac[i] = "0" -> 1
    IN  IF ~(AllDigits(whole) /\ AllDigits(frac) /\ Len(whole) + Len(frac) > 0)
        THEN [ok |-> FALSE, n |-> 0, f |-> 0]
        ELSE IF ~neg THEN [ok |-> TRUE, n |-> ParseNat(whole), f |-> half]
        ELSE IF half = 0 THEN [ok |-> TRUE, n |-> -ParseNat(whole), f |-> 0]
        ELSE [ok |-> TRUE, n |-> -ParseNat(whole) - 1, f |-> 1]

\* float() of a text without surrounding blanks
FloatOfStripped(t) ==
    FloatValue(Len(t) > 0 /\ Head(t) = "-",
               SubSeq(Unsigned(t), 1, DotAt(Unsigned(t)) - 1),
               SubSeq(Unsigned(t), DotAt(Unsigned(t)) + 1, Len(Unsigned(t))))

\* [ok, n, f]: ok is FALSE where float() raises ValueError
ParseFloat(text) == FloatOfStripped(strip(text))

\* str.replace(old, '') for a one-character old
RemoveChar(s, c) == SelectSeq(s, LAMBDA x : x # c)

-----------------------------------------------------------------------------
(* datetime values: the proleptic Gregorian calendar of years 1 to 9999,   *)
(* a day being counted by its ordinal (0001-01-01 is day 1), as datetime   *)
(* does when a timedelta is added.                                         *)

is_leap(year) == year % 4 = 0 /\ (year % 100 # 0 \/ year % 400 = 0)

DAYS_IN_MONTH == <<31, 28, 31, 30, 31, 30, 31, 31, 30, 31, 30, 31>>
DAYS_BEFORE_MONTH == <<0, 31, 59, 90, 120, 151, 181, 212, 243, 273, 304, 334>>

days_in_month(year, month) ==
    IF month = 2 /\ is_leap(year) THEN 29 ELSE DAYS_IN_MONTH[month]

days_before_year(year) ==
    (year - 1) * 365 + (year - 1) \div 4 - (year - 1) \div 100 + (year - 1) \div 400

days_before_month(year, month) ==
    DAYS_BEFORE_MONTH[month] + (IF month > 2 /\ is_leap(year) THEN 1 ELSE 0)

ymd2ord(year, month, day) ==
    days_before_year(year) + days_before_month(year, month) + day

\* the month and the day of day n (from 0) of a year
MonthDayOf(year, n) ==
    LET guess == (n + 50) \div 32
        month == IF days_before_month(year, guess) > n THEN guess - 1 ELSE guess
    IN  <<month, n - days_before_month(year, month) + 1>>

\* the year of day n (from 0) of a cycle of 400 years starting at year base,
\* with the day of that year
YearDayOf(base, n) ==
    LET n100 == n \div 36524
        r100 == n % 36524
        n4 == r100 \div 1461
        r4 == r100 % 1461
        n1 == r4 \div 365
    IN  IF n1 = 4 \/ n100 = 4
        THEN <<base + n100 * 100 + n4 * 4 + n1 - 1, 365>>
        ELSE <<base + n100 * 100 + n4 * 4 + n1, r4 % 365>>

\* <<year, month, day>> of an ordinal
ord2ymd(ordinal) ==
    LET yd == YearDayOf(((ordinal - 1) \div 146097) * 400 + 1, (ordinal - 1) % 146097)
    IN  <<yd[1]>> \o MonthDayOf(yd[1], yd[2])

MaxOrdinal == ymd2ord(9999, 12, 31)

\* the datetime of an ordinal and an hour; OverflowError outside the years
\* 1 to 9999 is given as None, as the callers below catch it
FromOrdinal(ordinal, hour) ==
    IF ordinal < 1 \/ ordinal > MaxOrdinal THEN NoneDate
    ELSE datetime(ord2ymd(ordinal)[1], ord2ymd(ordinal)[2], ord2ymd(ordinal)[3],
                  hour, 0, 0)

-----------------------------------------------------------------------------
(* datetime.strptime and datetime.strftime for the directives of the date  *)
(* formats below, in the C locale.  A format is the list of its directives *)
(* and literal characters.                                                 *)

RECURSIVE Directives(_)
Directives(chars) ==
    IF chars = <<>> THEN <<>>
    ELSE IF Head(chars) = "%" /\ Len(chars) > 1
    THEN <<"%" \o chars[2]>> \o Directives(SubSeq(chars, 3, Len(chars)))
    ELSE <<Head(chars)>> \o Directives(Tail(chars))

Fmt(str) == Directives(Chars(str))

MonthAbbr ==
    << Chars("Jan"), Chars("Feb"), Chars("Mar"), Chars("Apr"), Chars("May"),
       Chars("Jun"), Chars("Jul"), Chars("Aug"), Chars("Sep"), Chars("Oct"),
       Chars("Nov"), Chars("Dec") >>

MonthFull ==
    << Chars("January"), Chars("February"), Chars("March"), Chars("April"),
       Chars("May"), Chars("June"), Chars("July"), Chars("August"),
       Chars("September"), Chars("October"), Chars("November"),
       Chars("December") >>

\* the text starts with the word, whatever the case
StartsWith(text, word) ==
    Len(text) >= Len(word) /\ lower(SubSeq(text, 1, Len(word))) = lower(word)

\* the month whose name the text starts with (0: none)
MonthNamed(text, names) ==
    IF \E m \in 1..12 : StartsWith(text, names[m])
    THEN CHOOSE m \in 1..12 : StartsWith(text, names[m])
    ELSE 0

\* the least and the greatest value of the two-digit form of a numeric
\* directive and the least value of its one-digit form
NumericRange ==
    [ m |-> <<1, 12, 1>>, d |-> <<1, 31, 1>>, H |-> <<0, 23, 0>>,
      M |-> <<0, 59, 0>>, S |-> <<0, 61, 0>> ]

\* the number of characters a numeric directive takes from the text (0: no
\* match): its two-digit form before its one-digit form
NumericWidth(text, range) ==
    IF /\ Len(text) >= 2 /\ AllDigits(SubSeq(text, 1, 2))
       /\ ParseNat(SubSeq(text, 1, 2)) >= range[1]
       /\ ParseNat(SubSeq(text, 1, 2)) <= range[2]
    THEN 2
    ELSE IF Len(text) >= 1 /\ IsDigitChar(text[1]) /\ DigitValue(text[1]) >= range[3]
    THEN 1
    ELSE 0

\* the white space a blank of the format takes
RECURSIVE SpacesAt(_)
SpacesAt(text) ==
    IF text # <<>> /\ IsSpaceChar(Head(text)) THEN 1 + SpacesAt(Tail(text)) ELSE 0

\* the characters one item of a format takes from the text (0: no match)
ItemWidth(text, item) ==
    CASE item = "%Y" ->
            IF Len(text) >= 4 /\ AllDigits(SubSeq(text, 1, 4)) THEN 4 ELSE 0
      [] item = "%d" /\ Len(text) >= 2 /\ text[1] = " "
            /\ IsDigitChar(text[2]) /\ text[2] # "0"
            /\ NumericWidth(text, NumericRange.d) = 0 -> 2
      [] item \in {"%m", "%d", "%H", "%M", "%S"} ->
            NumericWidth(text, NumericRange[SubSeq(item, 2, 2)])
      [] item = "%b" -> IF MonthNamed(text, MonthAbbr) # 0 THEN 3 ELSE 0
      [] item = "%B" ->
            IF MonthNamed(text, MonthFull) # 0
            THEN Len(MonthFull[MonthNamed(text, MonthFull)])
            ELSE 0
      [] item = " " -> SpacesAt(text)
      [] OTHER -> IF text # <<>> /\ LowerChar(Head(text)) = LowerChar(item) THEN 1 ELSE 0

\* the fields found so far with the value one item read from taken
WithItem(found, taken, item) ==
    CASE item = "%Y" -> [found EXCEPT !.year = ParseNat(taken)]
      [] item = "%m" -> [found EXCEPT !.month = ParseNat(taken)]
      [] item = "%d" -> [found EXCEPT !.day = ParseNat(strip(taken))]
      [] item = "%H" -> [found EXCEPT !.hour = ParseNat(taken)]
      [] item = "%M" -> [found EXCEPT !.minute = ParseNat(taken)]
      [] item = "%S" -> [found EXCEPT !.second = ParseNat(taken)]
      [] item = "%b" -> [found EXCEPT !.month = MonthNamed(taken, MonthAbbr)]
      [] item = "%B" -> [found EXCEPT !.month = MonthNamed(taken, MonthFull)]
      [] OTHER -> found

\* the fields a format finds in the whole of a text (NoneDate: no match)
RECURSIVE Scan(_, _, _)
Scan(text, format, found) ==
    IF format = <<>> THEN (IF text = <<>> THEN found ELSE NoneDate)
    ELSE IF ItemWidth(text, Head(format)) = 0 THEN NoneDate
    ELSE Scan(SubSeq(text, ItemWidth(text, Head(format)) + 1, Len(text)),
              Tail(format),
              WithItem(found, SubSeq(text, 1, ItemWidth(text, Head(format))),
                       Head(format)))

\* the fields name a moment of the calendar
ValidFields(found) ==
    /\ found.t = "datetime"
    /\ found.year >= 1
    /\ found.day <= days_in_month(found.year, found.month)
    /\ found.second <= 59

\* datetime.strptime(date_str, fmt); NoneDate where it raises ValueError
strptime(date_str, fmt) ==
    IF ValidFields(Scan(date_str, fmt, datetime(1900, 1, 1, 0, 0, 0)))
    THEN Scan(date_str, fmt, datetime(1900, 1, 1, 0, 0, 0))
    ELSE NoneDate

\* a number in at least width digits
RECURSIVE Padded(_, _)
Padded(n, width) ==
    IF Len(Chars(ToString(n))) >= width THEN Chars(ToString(n))
    ELSE <<"0">> \o Padded(n, width - 1)

\* the text of one item of a format for a datetime
ItemText(dt, item) ==
    CASE item = "%Y" -> Padded(dt.year, 4)
      [] item = "%m" -> Padded(dt.month, 2)
      [] item = "%d" -> Padded(dt.day, 2)
      [] item = "%H" -> Padded(dt.hour, 2)
      [] item = "%M" -> Padded(dt.minute, 2)
      [] item = "%S" -> Padded(dt.second, 2)
      [] item = "%b" -> MonthAbbr[dt.month]
      [] item = "%B" -> MonthFull[dt.month]
      [] OTHER -> <<item>>

\* dt.strftime(fmt)
RECURSIVE strftime(_, _)
strftime(dt, fmt) ==
    IF fmt = <<>> THEN <<>>
    ELSE ItemText(dt, Head(fmt)) \o strftime(dt, Tail(fmt))

-----------------------------------------------------------------------------
(* excel_utils.parse_excel_date                                            *)

\* the list formats, in its order
formats ==
    << Fmt("%Y/%m/%d"), Fmt("%Y-%m-%d"),
       <<"%Y", "[nen]", "%m", "[gatsu]", "%d", "[nichi]">>,
       Fmt("%Y/%m/%d %H:%M"), Fmt("%Y-%m-%d %H:%M"),
       Fmt("%Y/%m/%d %H:%M:%S"), Fmt("%Y-%m-%d %H:%M:%S"),
       Fmt("%m/%d/%Y"), Fmt("%d/%m/%Y"),
       Fmt("%m-%d-%Y"), Fmt("%d-%m-%Y"),
       Fmt("%b %d, %Y"), Fmt("%d %b %Y"),
       Fmt("%B %d, %Y"), Fmt("%d %B %Y") >>

\* the outcome of the loop over the formats from index k on
RECURSIVE FirstFormat(_, _)
FirstFormat(date_str, k) ==
    IF k > Len(formats) THEN NoneDate
    ELSE IF strptime(date_str, formats[k]).t = "datetime"
    THEN strptime(date_str, formats[k])
    ELSE FirstFormat(date_str, k + 1)

\* the index of the first sep of s, Len(s) + 1 when there is none
FirstAt(s, sep) ==
    IF \E i \in 1..Len(s) : s[i] = sep
    THEN CHOOSE i \in 1..Len(s) : s[i] = sep /\ \A j \in 1..(i - 1) : s[j] # sep
    ELSE Len(s) + 1

\* s.split(sep) for a one-character sep
RECURSIVE split(_, _)
split(s, sep) ==
    IF FirstAt(s, sep) > Len(s) THEN <<s>>
    ELSE <<SubSeq(s, 1, FirstAt(s, sep) - 1)>>
            \o split(SubSeq(s, FirstAt(s, sep) + 1, Len(s)), sep)

\* datetime(year, month, day) of lines 109-113; NoneDate on ValueError
DateOfParts(year, month, day) ==
    IF /\ year >= 1 /\ year <= 9999 /\ month >= 1 /\ month <= 12
       /\ day >= 1 /\ day <= days_in_month(year, month)
    THEN datetime(year, month, day, 0, 0, 0)
    ELSE NoneDate

\* the dotted form '2023.4.1' of lines 106-113
DottedDate(parts) ==
    IF Len(parts) = 3 /\ \A i \in 1..3 : isdigit(parts[i])
    THEN DateOfParts(ParseNat(parts[1]), ParseNat(parts[2]), ParseNat(parts[3]))
    ELSE NoneDate

\* lines 79-116, date_str being the text without surrounding blanks
DateOfText(date_str) ==
    IF date_str = <<>> THEN NoneDate
    ELSE IF FirstFormat(date_str, 1).t = "datetime" THEN FirstFormat(date_str, 1)
    ELSE DottedDate(split(date_str, "."))

\* A variant of the serial number conversion: days counted from 1900-01-01.
SerialDate_from_1900(n, f) == FromOrdinal(ymd2ord(1900, 1, 1) + n, 12 * f)

\* datetime(1899, 12, 30) + timedelta(days=date_value) for the number
\* n + f/2; None where the sum leaves the years 1 to 9999
SerialDate(n, f) == FromOrdinal(ymd2ord(1899, 12, 30) + n, 12 * f)

\* the datetime a date cell holds: DateV(d) is midnight of serial day d
DateOfCell(v) == FromOrdinal(ymd2ord(1899, 12, 30) + v.n, 0)

parse_excel_date(date_value) ==
    CASE date_value.t = "none" -> NoneDate
      [] date_value.t = "date" -> DateOfCell(date_value)
      [] date_value.t = "str" -> DateOfText(strip(date_value.s))
      [] date_value.t = "num" -> SerialDate(date_value.n, date_value.f)

-----------------------------------------------------------------------------
(* The dates and the hours of a process row, as the builders under a       *)
(* header row read them from the role columns.                             *)

\* the cell of a role column, None when the role is absent
RoleCell(sheet, row, column_indices, key) ==
    IF key \in DOMAIN column_indices
    THEN cell(sheet, row, column_indices[key])
    ELSE NoneV

\* if 'start_date' in column_indices: ... if start_date: set_start_date(...)
WithStartDate(process, parsed) ==
    IF parsed.t = "datetime" THEN set_start_date(process, parsed) ELSE process

WithEndDate(process, parsed) ==
    IF parsed.t = "datetime" THEN set_end_date(process, parsed) ELSE process

\* the dates of a row set on its process
WithDates(process, sheet, row, column_indices) ==
    WithEndDate(
        WithStartDate(process,
            parse_excel_date(RoleCell(sheet, row, column_indices, "start_date"))),
        parse_excel_date(RoleCell(sheet, row, column_indices, "end_date")))

\* value.replace('.', '', 1)
RemoveFirst(s, c) ==
    IF FirstAt(s, c) > Len(s) THEN s
    ELSE SubSeq(s, 1, FirstAt(s, c) - 1) \o SubSeq(s, FirstAt(s, c) + 1, Len(s))

\* the hours of a cell where a number or a text of digits with at most one
\* point is taken (lines 676-696 and 752-773)
HoursOfNumberOrText(value) ==
    IF Truthy(value) /\ value.t = "num" THEN Hours(value.n, value.f)
    ELSE IF Truthy(value) /\ value.t = "str" /\ isdigit(RemoveFirst(value.s, "."))
    THEN Hours(ParseFloat(value.s).n, ParseFloat(value.s).f)
    ELSE Hours(0, 0)

\* the hours of a cell where only a number is taken (lines 241-253, 576-587)
HoursOfNumber(value) ==
    IF Truthy(value) /\ value.t = "num" THEN Hours(value.n, value.f)
    ELSE Hours(0, 0)

\* dates and hours as the flat import and the identifier build read them
WithDatesAndHours(process, sheet, row, column_indices) ==
    update_hours(WithDates(process, sheet, row, column_indices),
        HoursOfNumberOrText(RoleCell(sheet, row, column_indices, "estimated_hours")),
        HoursOfNumberOrText(RoleCell(sheet, row, column_indices, "actual_hours")))

\* dates and hours as the level build and its flat fallback read them
WithDatesAndNumberHours(process, sheet, row, column_indices) ==
    update_hours(WithDates(process, sheet, row, column_indices),
        HoursOfNumber(RoleCell(sheet, row, column_indices, "estimated_hours")),
        HoursOfNumber(RoleCell(sheet, row, column_indices, "actual_hours")))

-----------------------------------------------------------------------------
(* ExcelImporter._import_structured_simple_tasks: the flat import under a  *)
(* header row into the phase at index pi.  The local variable progress is  *)
(* kept from one row to the next; reading it before any row assigned it    *)
(* raises UnboundLocalError, which the except clause of the row does not   *)
(* catch: the call raises.                                                 *)

Unbound == [bound |-> FALSE, n |-> 0, f |-> 0]
Bound(n, f) == [bound |-> TRUE, n |-> n, f |-> f]

Positive(x) == x.n > 0 \/ (x.n = 0 /\ x.f = 1)       \* x > 0
Below100(x) == x.n < 100                             \* x < 100

\* the assignee text of a row
AssigneeOf(sheet, row, column_indices) ==
    LET assignee_value == RoleCell(sheet, row, column_indices, "assignee")
    IN  IF Truthy(assignee_value) THEN StrV(PyStr(assignee_value)) ELSE StrV(<<>>)

\* progress = float(...) of line 785, parsed being the outcome of float()
ProgressFromText(progress, parsed) ==
    IF parsed.ok
    THEN [progress |-> Bound(parsed.n, parsed.f), caught |-> FALSE]
    ELSE [progress |-> progress, caught |-> TRUE]

\* the value of the local progress after the assignments of lines 782-785
\* (caught: float() raised ValueError, caught by the except clause)
ProgressAfter(progress, progress_value) ==
    CASE progress_value.t = "num" ->
            [progress |-> Bound(progress_value.n, progress_value.f), caught |-> FALSE]
      [] progress_value.t = "str" ->
            ProgressFromText(progress,
                             ParseFloat(RemoveChar(progress_value.s, "%")))
      [] OTHER -> [progress |-> progress, caught |-> FALSE]

\* A variant of the synthetic tasks: the completed part is made for every
\* progress from 0 on.
WithSyntheticTasks_from_zero(process, name_str, progress) ==
    LET p1 == IF progress.n >= 0
              THEN add_task(process,
                            Task(StrV(name_str \o COMPLETED_PART_SUFFIX), "COMPLETED"))
              ELSE process
    IN  IF Below100(progress)
        THEN add_task(p1, Task(StrV(name_str \o REMAINING_PART_SUFFIX), "NOT_STARTED"))
        ELSE p1

\* the synthetic tasks of lines 788-794
WithSyntheticTasks(process, name_str, progress) ==
    LET p1 == IF Positive(progress)
              THEN add_task(process,
                            Task(StrV(name_str \o COMPLETED_PART_SUFFIX), "COMPLETED"))
              ELSE process
    IN  IF Below100(progress)
        THEN add_task(p1, Task(StrV(name_str \o REMAINING_PART_SUFFIX), "NOT_STARTED"))
        ELSE p1

\* lines 787-797 for a row with a progress cell; after = ProgressAfter(...)
Reconciled(st, pi, process, name_str, after) ==
    IF after.caught
    THEN [st EXCEPT !.project = add_process(@, pi, process)]
    ELSE IF ~after.progress.bound
    THEN [st EXCEPT !.raised = TRUE]
    ELSE [st EXCEPT
            !.progress = after.progress,
            !.project = add_process(@, pi,
                WithSyntheticTasks(process, name_str, after.progress))]

\* one row; st = [project, progress, raised]
StructuredRow(st, pi, sheet, row, column_indices) ==
    LET name_value == RoleCell(sheet, row, column_indices, "name")
        name_str == strip(PyStr(name_value))
        process == WithDatesAndHours(
                       Process(StrV(name_str), AssigneeOf(sheet, row, column_indices), row),
                       sheet, row, column_indices)
        progress_value == RoleCell(sheet, row, column_indices, "progress")
    IN  IF st.raised \/ ~Truthy(name_value) THEN st
        ELSE IF name_str = <<>> THEN st
        ELSE IF "progress" \notin DOMAIN column_indices \/ progress_value.t = "none"
        THEN [st EXCEPT !.project = add_process(@, pi, process)]
        ELSE Reconciled(st, pi, process, name_str,
                        ProgressAfter(st.progress, progress_value))

RECURSIVE StructuredRows(_, _, _, _, _, _)
StructuredRows(st, pi, sheet, row, last, column_indices) ==
    IF row > last THEN st
    ELSE StructuredRows(StructuredRow(st, pi, sheet, row, column_indices),
                        pi, sheet, row + 1, last, column_indices)

\* [project, progress, raised]: raised means the call ended by an exception
_import_structured_simple_tasks(project, pi, sheet, header_row, column_indices) ==
    StructuredRows([project |-> project, progress |-> Unbound, raised |-> FALSE],
                   pi, sheet, header_row + 1, max_row(sheet), column_indices)

-----------------------------------------------------------------------------
(* ExcelImporter._build_hierarchy_from_standard_like: the identifier       *)
(* pattern build under a header row.  st = [project, current_phase], the   *)
(* index of the current phase in the project, 0 for None.                  *)

\* any(c.isdigit() for c in id_str) and any(c.isalpha() for c in id_str)
ProcessShaped(id_str) ==
    /\ \E i \in 1..Len(id_str) : IsDigitChar(id_str[i])
    /\ \E i \in 1..Len(id_str) : IsAlphaChar(id_str[i])

StandardLikeRow(st, sheet, row, column_indices, indent_column) ==
    LET id_value == cell(sheet, row, indent_column)
        name_value == IF "name" \in DOMAIN column_indices
                      THEN cell(sheet, row, column_indices["name"])
                      ELSE cell(sheet, row, 2)
        id_str == PyStr(id_value)
        name_str == PyStr(name_value)
    IN  IF ~Truthy(id_value) \/ ~Truthy(name_value) THEN st
        ELSE IF isalpha(id_str)
        THEN [project |-> add_phase(st.project, Phase(StrV(name_str), row)),
              current_phase |-> Len(st.project.phases) + 1]
        ELSE IF ProcessShaped(id_str)
        THEN LET withPhase ==
                    IF st.current_phase = 0
                    THEN [project |-> add_phase(st.project, Phase(UNCLASSIFIED_PHASE, 0)),
                          current_phase |-> Len(st.project.phases) + 1]
                    ELSE st
             IN  [withPhase EXCEPT !.project = add_process(@, withPhase.current_phase,
                    WithDatesAndHours(
                        Process(StrV(name_str), AssigneeOf(sheet, row, column_indices), row),
                        sheet, row, column_indices))]
        ELSE st

RECURSIVE StandardLikeRows(_, _, _, _, _, _)
StandardLikeRows(st, sheet, row, last, column_indices, indent_column) ==
    IF row > last THEN st
    ELSE StandardLikeRows(StandardLikeRow(st, sheet, row, column_indices, indent_column),
                          sheet, row + 1, last, column_indices, indent_column)

_build_hierarchy_from_standard_like(project, sheet, header_row, column_indices, indent_column) ==
    StandardLikeRows([project |-> project, current_phase |-> 0], sheet,
                     header_row + 1, max_row(sheet), column_indices,
                     indent_column).project

-----------------------------------------------------------------------------
(* ExcelImporter._build_hierarchy_from_ms_project: the level build under a *)
(* header row.  st = [project, phases]; phases is the dict from a level to *)
(* a phase, kept as the function from the levels present to the index of   *)
(* the phase in the project.  level_column is 0 for None.                  *)

\* int(x) of a number: truncation toward zero
PyInt(v) == IF v.f = 1 /\ v.n < 0 THEN v.n + 1 ELSE v.n

\* value.count('\t') + value.count('    ')
IndentCount(str) == count(str, <<"\t">>) + count(str, <<" ", " ", " ", " ">>)

get_level(sheet, row, column_indices, level_column) ==
    LET level_value == IF level_column # 0 THEN cell(sheet, row, level_column) ELSE NoneV
        name_col == IF "name" \in DOMAIN column_indices THEN column_indices["name"] ELSE 2
        name_value == cell(sheet, row, name_col)
    IN  IF level_column # 0 /\ level_value.t = "num" THEN PyInt(level_value)
        ELSE IF level_column # 0 /\ level_value.t = "str" THEN IndentCount(level_value.s)
        ELSE IF Truthy(name_value) /\ name_value.t = "str" THEN IndentCount(name_value.s)
        ELSE 0

\* the while loop of lines 554-556
RECURSIVE ParentLevel(_, _)
ParentLevel(parent_level, phases) ==
    IF parent_level > 0 /\ parent_level \notin DOMAIN phases
    THEN ParentLevel(parent_level - 1, phases)
    ELSE parent_level

\* the synthetic tasks of lines 592-602
WithLevelTasks(process, name_str, column_indices, progress_value) ==
    IF "progress" \in DOMAIN column_indices /\ Truthy(progress_value)
       /\ progress_value.t = "num"
    THEN LET p1 == add_task(process,
                       Task(StrV(name_str \o AUTO_GENERATED_SUFFIX), "COMPLETED"))
         IN  IF progress_value.n < 100
             THEN add_task(p1, Task(StrV(name_str \o REMAINING_WORK_SUFFIX),
                                    "NOT_STARTED"))
             ELSE p1
    ELSE process

MsProjectRow(st, sheet, row, column_indices, level_column) ==
    LET name_value == RoleCell(sheet, row, column_indices, "name")
        name_str == strip(PyStr(name_value))
        level == get_level(sheet, row, column_indices, level_column)
        process ==
            WithLevelTasks(
                WithDatesAndNumberHours(
                    Process(StrV(name_str), AssigneeOf(sheet, row, column_indices), row),
                    sheet, row, column_indices),
                name_str, column_indices,
                RoleCell(sheet, row, column_indices, "progress"))
        parent_level == ParentLevel(level - 1, st.phases)
        next == Len(st.project.phases) + 1
    IN  IF ~Truthy(name_value) THEN st
        ELSE IF name_str = <<>> THEN st
        ELSE IF level = 0 \/ level = 1
        THEN [project |-> add_phase(st.project, Phase(StrV(name_str), row)),
              phases |-> (level :> next) @@ st.phases]
        ELSE IF parent_level \in DOMAIN st.phases
        THEN [st EXCEPT !.project =
                add_process(@, st.phases[parent_level], process)]
        ELSE [project |->
                add_process(add_phase(st.project, Phase(UNCLASSIFIED_PHASE, 0)),
                            next, process),
              phases |-> (0 :> next) @@ st.phases]

RECURSIVE MsProjectRows(_, _, _, _, _, _)
MsProjectRows(st, sheet, row, last, column_indices, level_column) ==
    IF row > last THEN st
    ELSE MsProjectRows(MsProjectRow(st, sheet, row, column_indices, level_column),
                       sheet, row + 1, last, column_indices, level_column)

_build_hierarchy_from_ms_project(project, sheet, header_row, column_indices, level_column) ==
    MsProjectRows([project |-> project, phases |-> [l \in {} |-> 0]], sheet,
                  header_row + 1, max_row(sheet), column_indices,
                  level_column).project

-----------------------------------------------------------------------------
(* ExcelImporter._import_phases_and_processes: the identifier pattern      *)
(* build of the standard variant, from row 8 of the schedule sheet         *)
(* (B: identifier, C: name, D: assignee).  st = [project, current_phases]; *)
(* current_phases is the dict from a phase identifier to the index of its  *)
(* phase.  The tables read from the input sheet (phase_names,              *)
(* process_to_phase) are never used by the code and are left out.          *)

FirstDataRow == 8       \* range(8, last_row + 1)

\* find_last_row_with_data(worksheet, "B")
find_last_row_with_data(sheet, col) ==
    LET rows == { r \in 1..max_row(sheet) : cell(sheet, r, col).t # "none" }
    IN  IF rows = {} THEN 1 ELSE SetMax(rows)

\* ''.join([c for c in id_str if c.isalpha()])
Letters(id_str) == SelectSeq(id_str, IsAlphaChar)

\* x or ""
OrEmpty(v) == IF Truthy(v) THEN v ELSE StrV(<<>>)

\* float() of the value x or 0.0 of an hours cell, a number being kept;
\* ok is FALSE where float() raises ValueError or TypeError
FloatOfCell(value) ==
    CASE ~Truthy(value) -> [ok |-> TRUE, n |-> 0, f |-> 0]
      [] value.t = "num" -> [ok |-> TRUE, n |-> value.n, f |-> value.f]
      [] value.t = "str" -> ParseFloat(value.s)
      [] OTHER -> [ok |-> FALSE, n |-> 0, f |-> 0]

\* estimated_hours after lines 911-926, est and act being the outcomes of
\* FloatOfCell for the cells of columns H and I
EstimatedOf(est) == IF est.ok THEN Hours(est.n, est.f) ELSE Hours(0, 0)

\* actual_hours after lines 911-926: when the conversion of the estimated
\* hours raised, the conversion of the actual hours is not reached and a
\* value that is not a number is set to 0.0
ActualOf(est, act, actual_value) ==
    IF act.ok /\ (est.ok \/ ~Truthy(actual_value) \/ actual_value.t = "num")
    THEN Hours(act.n, act.f)
    ELSE Hours(0, 0)

\* lines 908-941: the dates of columns F and G, the hours of columns H and I
WithStandardFields(process, schedule_sheet, row) ==
    update_hours(
        WithEndDate(
            WithStartDate(process, parse_excel_date(cell(schedule_sheet, row, 6))),
            parse_excel_date(cell(schedule_sheet, row, 7))),
        EstimatedOf(FloatOfCell(cell(schedule_sheet, row, 8))),
        ActualOf(FloatOfCell(cell(schedule_sheet, row, 8)),
                 FloatOfCell(cell(schedule_sheet, row, 9)),
                 cell(schedule_sheet, row, 9)))

StandardRow(st, schedule_sheet, row) ==
    LET id_value == cell(schedule_sheet, row, 2)
        name_value == cell(schedule_sheet, row, 3)
        id_str == PyStr(id_value)
        assignee == OrEmpty(cell(schedule_sheet, row, 4))
        phase_id == Letters(id_str)
    IN  IF ~Truthy(id_value) \/ ~Truthy(name_value) THEN st
        ELSE IF isalpha(id_str)
        THEN [project |-> add_phase(st.project, Phase(name_value, row)),
              current_phases |->
                  (id_str :> (Len(st.project.phases) + 1)) @@ st.current_phases]
        ELSE IF ProcessShaped(id_str) /\ phase_id \in DOMAIN st.current_phases
        THEN [st EXCEPT !.project =
                add_process(@, st.current_phases[phase_id],
                            WithStandardFields(Process(name_value, assignee, row),
                                               schedule_sheet, row))]
        ELSE st

RECURSIVE StandardRows(_, _, _, _)
StandardRows(st, schedule_sheet, row, last) ==
    IF row > last THEN st
    ELSE StandardRows(StandardRow(st, schedule_sheet, row), schedule_sheet,
                      row + 1, last)

_import_phases_and_processes(wb, project) ==
    LET schedule_sheet == SheetOf(wb, SCHEDULE_JA)
    IN  StandardRows([project |-> project, current_phases |-> [i \in {} |-> 0]],
                     schedule_sheet, FirstDataRow,
                     find_last_row_with_data(schedule_sheet, 2)).project

-----------------------------------------------------------------------------
(* ExcelImporter._import_tasks: the tasks of the sheets named after a      *)
(* process identifier.  A process is referred to by <<phase index, process *)
(* index>>.                                                                *)

FirstTaskRow == 6       \* range(6, 18)
LastTaskRow == 17

TaskStatusValues ==
    << [status |-> "NOT_STARTED", value |-> <<"[michakushu]">>],
       [status |-> "IN_PROGRESS", value |-> <<"[shinkouchuu]">>],
       [status |-> "COMPLETED", value |-> <<"[kanryou]">>],
       [status |-> "IMPOSSIBLE", value |-> <<"[taiou]", "[funou]">>] >>

\* The process the loops of lines 988-995 leave in the map for a schedule
\* row: in each phase the first process whose name equals the row's name is
\* stored, so the one of the last such phase stays (<<0, 0>>: no entry).
ProcessNamed(project, process_name) ==
    LET hits == { pi \in 1..Len(project.phases) :
                    \E qi \in 1..Len(project.phases[pi].processes) :
                        project.phases[pi].processes[qi].name = process_name }
        pi == SetMax(hits)
    IN  IF hits = {} THEN <<0, 0>>
        ELSE <<pi, CHOOSE qi \in 1..Len(project.phases[pi].processes) :
                    /\ project.phases[pi].processes[qi].name = process_name
                    /\ \A q \in 1..(qi - 1) :
                           project.phases[pi].processes[q].name # process_name>>

\* excel_process_map as [keys, at]: the identifiers in insertion order and
\* the process each one maps to
RECURSIVE ProcessMap(_, _, _, _, _)
ProcessMap(m, project, schedule_sheet, row, last) ==
    IF row > last THEN m
    ELSE LET id_value == cell(schedule_sheet, row, 2)
             id_str == PyStr(id_value)
             ref == ProcessNamed(project, cell(schedule_sheet, row, 3))
             m2 == IF Truthy(id_value) /\ ProcessShaped(id_str) /\ ref # <<0, 0>>
                   THEN [keys |-> IF id_str \in DOMAIN m.at THEN m.keys
                                  ELSE Append(m.keys, id_str),
                         at |-> (id_str :> ref) @@ m.at]
                   ELSE m
         IN  ProcessMap(m2, project, schedule_sheet, row + 1, last)

TaskStatusOf(task_status_str) ==
    IF task_status_str.t = "str"
       /\ \E i \in 1..Len(TaskStatusValues) : TaskStatusValues[i].value = task_status_str.s
    THEN TaskStatusValues[CHOOSE i \in 1..Len(TaskStatusValues) :
                            TaskStatusValues[i].value = task_status_str.s].status
    ELSE "NOT_STARTED"

\* the tasks of rows row..LastTaskRow of a process sheet, added to a process
RECURSIVE SheetTasks(_, _, _)
SheetTasks(process, sheet, row) ==
    IF row > LastTaskRow THEN process
    ELSE LET task_name == cell(sheet, row, 2)
         IN  SheetTasks(
                 IF Truthy(task_name)
                 THEN add_task(process, Task(StrV(PyStr(task_name)),
                                             TaskStatusOf(cell(sheet, row, 3))))
                 ELSE process,
                 sheet, row + 1)

RECURSIVE MappedTasks(_, _, _, _)
MappedTasks(project, wb, m, k) ==
    IF k > Len(m.keys) THEN project
    ELSE LET excel_process_id == m.keys[k]
             ref == m.at[excel_process_id]
         IN  MappedTasks(
                 IF InList(excel_process_id, wb.sheetnames)
                 THEN [project EXCEPT !.phases[ref[1]].processes[ref[2]] =
                         SheetTasks(@, SheetOf(wb, excel_process_id), FirstTaskRow)]
                 ELSE project,
                 wb, m, k + 1)

_import_tasks(wb, project) ==
    IF InList(SCHEDULE_JA, wb.sheetnames)
    THEN LET schedule_sheet == SheetOf(wb, SCHEDULE_JA)
         IN  MappedTasks(project, wb,
                 ProcessMap([keys |-> <<>>, at |-> [i \in {} |-> <<0, 0>>]], project,
                            schedule_sheet, FirstDataRow,
                            find_last_row_with_data(schedule_sheet, 2)),
                 1)
    ELSE project

-----------------------------------------------------------------------------
(* The four importers and ExcelImporter.import_from_file.  An importer     *)
(* returns a project or NoneResult; RaisedResult stands for an exception   *)
(* leaving the importer, which import_from_file turns into None.           *)

RaisedResult == [kind |-> "Raised"]

\* the first name of a list that is a sheet of the workbook (<<>>: none)
FirstSheetNamed(wb, names) ==
    LET found == { i \in 1..Len(names) : InList(names[i], wb.sheetnames) }
    IN  IF found = {} THEN <<>>
        ELSE names[CHOOSE i \in found : \A j \in found : i <= j]

\* the first column of the header row, among the first 9, whose header holds
\* one of the keywords (0: None); textOnly: the header must be a str
HierarchyColumn(sheet, header_row, keywords, textOnly) ==
    LET cols == { col \in Range(1, Min(10, max_column(sheet) + 1)) :
                    LET header == cell(sheet, header_row, col)
                    IN  /\ Truthy(header)
                        /\ textOnly => header.t = "str"
                        /\ \E k \in 1..Len(keywords) :
                               Contains(keywords[k], lower(PyStr(header))) }
    IN  IF cols = {} THEN 0 ELSE CHOOSE c \in cols : \A d \in cols : c <= d

LevelKeywords ==
    << Chars("level"), Chars("wbs"), <<"[kaisou]">>, <<"[indento]">> >>

IndentKeywords ==
    << Chars("level"), Chars("wbs"), <<"[kaisou]">>, <<"[indento]">>, Chars("id") >>

\* the name found on the sheet, or the default name of the variant
ProjectNameOr(sheet, default) ==
    LET project_name == _find_project_name(sheet)
    IN  IF project_name # <<>> THEN StrV(project_name) ELSE default

\* lines 152-157: a project without phase is not returned
WithPhasesOrNone(project) ==
    IF get_phases(project) = <<>> THEN NoneResult ELSE project

_import_standard_format(wb) ==
    IF ~InList(SCHEDULE_JA, wb.sheetnames) \/ ~InList(INPUT_JA, wb.sheetnames)
    THEN NoneResult
    ELSE LET schedule_sheet == SheetOf(wb, SCHEDULE_JA)
             b1 == cell(schedule_sheet, 1, 2)
             project_name == IF Truthy(b1) THEN b1
                             ELSE ProjectNameOr(schedule_sheet, DEFAULT_NAME_STANDARD)
         IN  WithPhasesOrNone(
                 _import_tasks(wb,
                     _import_phases_and_processes(wb,
                         Project(project_name, DESCRIPTION_STANDARD))))

\* the rows under the header as processes of the phase at index pi, when the
\* level build produced no phase (lines 225-269)
RECURSIVE MsProjectFlatRows(_, _, _, _, _, _)
MsProjectFlatRows(project, pi, sheet, row, last, column_indices) ==
    IF row > last THEN project
    ELSE LET named == RoleCell(sheet, row, column_indices, "name")
             name_value == IF Truthy(named) THEN named ELSE cell(sheet, row, 2)
         IN  MsProjectFlatRows(
                 IF Truthy(name_value)
                 THEN add_process(project, pi,
                         WithDatesAndNumberHours(
                             Process(StrV(PyStr(name_value)),
                                     AssigneeOf(sheet, row, column_indices), row),
                             sheet, row, column_indices))
                 ELSE project,
                 pi, sheet, row + 1, last, column_indices)

\* the sheet the ms_project importer reads (lines 170-181)
TasksSheet(wb) == SheetOf(wb, FirstSheetNamed(wb, TaskSheetNames))

\* lines 217-271: the project of the level build, or the flat rows under a
\* main phase when the level build gave no phase
HierarchyOrFlat(built, tasks_sheet, header_row, column_indices) ==
    IF get_phases(built) = <<>>
    THEN MsProjectFlatRows(add_phase(built, Phase(MAIN_PHASE, 0)), 1, tasks_sheet,
                           header_row + 1, max_row(tasks_sheet), column_indices)
    ELSE built

\* lines 191-271: the import of the tasks sheet, its header row being known
ImportTasksSheet(project, tasks_sheet, header_row) ==
    IF header_row = 0
    THEN _import_simple_tasks(add_phase(project, Phase(MAIN_PHASE, 0)), 1,
                              tasks_sheet)
    ELSE HierarchyOrFlat(
             _build_hierarchy_from_ms_project(project, tasks_sheet, header_row,
                 _get_column_indices(tasks_sheet, header_row),
                 HierarchyColumn(tasks_sheet, header_row, LevelKeywords, FALSE)),
             tasks_sheet, header_row, _get_column_indices(tasks_sheet, header_row))

_import_ms_project_format(wb) ==
    IF FirstSheetNamed(wb, TaskSheetNames) = <<>> THEN NoneResult
    ELSE ImportTasksSheet(
             Project(ProjectNameOr(TasksSheet(wb), DEFAULT_NAME_MS_PROJECT),
                     DESCRIPTION_MS_PROJECT),
             TasksSheet(wb), _find_header_row(TasksSheet(wb)))

MainSheetNames ==
    << Chars("Project"), PROJECT_JA, Chars("Tasks"), TASK_JA, Chars("Sheet1"),
       <<"[shiito]", "1">> >>

\* the sheet the simple importer reads (lines 283-291)
MainSheet(wb) ==
    IF FirstSheetNamed(wb, MainSheetNames) # <<>>
    THEN SheetOf(wb, FirstSheetNamed(wb, MainSheetNames))
    ELSE ActiveSheet(wb)

\* an exception leaving _import_structured_simple_tasks leaves the importer
ProjectOrRaised(structured) ==
    IF structured.raised THEN RaisedResult ELSE structured.project

\* lines 306-316: the import of the main sheet, its header row being known
ImportMainSheet(project, main_sheet, header_row) ==
    IF header_row # 0
    THEN ProjectOrRaised(
             _import_structured_simple_tasks(project, 1, main_sheet, header_row,
                 _get_column_indices(main_sheet, header_row)))
    ELSE _import_simple_tasks(project, 1, main_sheet)

_import_simple_format(wb) ==
    ImportMainSheet(
        add_phase(Project(ProjectNameOr(MainSheet(wb), DEFAULT_NAME_SIMPLE),
                          DESCRIPTION_SIMPLE),
                  Phase(MAIN_PHASE, 0)),
        MainSheet(wb), _find_header_row(MainSheet(wb)))

ScheduleKeywords ==
    << SCHEDULE_JA, PLAN_JA, Chars("Schedule"), Chars("Plan") >>

\* the sheet the standard_like importer reads (lines 329-338)
ScheduleLikeSheet(wb) ==
    LET named == { i \in 1..Len(wb.sheetnames) :
                     \E k \in 1..Len(ScheduleKeywords) :
                         Contains(ScheduleKeywords[k], wb.sheetnames[i]) }
    IN  IF named # {}
        THEN wb.sheets[CHOOSE i \in named : \A j \in named : i <= j]
        ELSE ActiveSheet(wb)

\* lines 372-381: the identifier build, or the flat import under a main phase
HierarchyOrStructured(project, schedule_sheet, header_row, column_indices, indent_column) ==
    IF indent_column # 0
    THEN _build_hierarchy_from_standard_like(project, schedule_sheet, header_row,
                                             column_indices, indent_column)
    ELSE ProjectOrRaised(
             _import_structured_simple_tasks(
                 add_phase(project, Phase(MAIN_PHASE, 0)), 1, schedule_sheet,
                 header_row, column_indices))

\* lines 350-381: the import of the schedule sheet, its header row being known
ImportScheduleSheet(project, schedule_sheet, header_row) ==
    IF header_row = 0
    THEN _import_simple_tasks(add_phase(project, Phase(MAIN_PHASE, 0)), 1,
                              schedule_sheet)
    ELSE HierarchyOrStructured(project, schedule_sheet, header_row,
             _get_column_indices(schedule_sheet, header_row),
             HierarchyColumn(schedule_sheet, header_row, IndentKeywords, TRUE))

_import_standard_like_format(wb) ==
    ImportScheduleSheet(
        Project(ProjectNameOr(ScheduleLikeSheet(wb), DEFAULT_NAME_STANDARD_LIKE),
                DESCRIPTION_STANDARD_LIKE),
        ScheduleLikeSheet(wb), _find_header_row(ScheduleLikeSheet(wb)))

\* the variant of the call: the configured one, or the detected one
FormatUsed(ft, wb) == IF ft = "auto" THEN detect_format(wb) ELSE ft

\* lines 92-102: the importer of the variant
ImportAs(format, wb) ==
    CASE format = "standard" -> _import_standard_format(wb)
      [] format = "ms_project" -> _import_ms_project_format(wb)
      [] format = "simple" -> _import_simple_format(wb)
      [] format = "standard_like" -> _import_standard_like_format(wb)
      [] OTHER -> NoneResult

\* lines 104-109: an exception is turned into None
ExceptNone(returned) ==
    IF returned.kind = "Raised" THEN NoneResult ELSE returned

import_from_file(ft, wb) == ExceptNone(ImportAs(FormatUsed(ft, wb), wb))

\* A variant of the selector after a call: the variant used is stored.
SelectorAfter_stored(ft, wb) == FormatUsed(ft, wb)

\* self.format_type after import_from_file: line 84 copies it to a local and
\* only the local is assigned
SelectorAfter(ft, wb) == ft

-----------------------------------------------------------------------------
(* The importer at work: a workbook is loaded, the caller may choose the   *)
(* format (set_format_type) and then imports it (import_from_file).        *)

\* the values the callers of set_format_type pass
FormatChoices == {"auto", "standard", "ms_project", "simple"}

\* rows[i][j] at row top + i - 1, column left + j - 1; a None cell is left out
GridSheet(rows, top, left) ==
    LET filled == { ij \in UNION { {i} \X (1..Len(rows[i])) : i \in 1..Len(rows) } :
                      rows[ij[1]][ij[2]].t # "none" }
    IN  [ rc \in { <<top + ij[1] - 1, left + ij[2] - 1>> : ij \in filled } |->
            rows[rc[1] - top + 1][rc[2] - left + 1] ]

Text(str) == StrV(Chars(str))

\* the lists of at most MaxRows rows of a set of rows
RECURSIVE RowLists(_, _)
RowLists(S, k) ==
    IF k = 0 THEN {<<>>}
    ELSE { Append(l, x) : l \in RowLists(S, k - 1), x \in S }

UpToMaxRows(S) == UNION { RowLists(S, k) : k \in 0..MaxRows }

\* identifier, name
IdRowChoices ==
    { <<Text("A"), Text("Phase A")>>, <<Text("B"), Text("Phase B")>>,
      <<Text("A1"), Text("Task X")>>, <<Text("B3"), Text("Task Y")>>,
      <<Text("C1"), Text("Task Z")>>, <<NumV(12), Text("Misc")>>,
      <<Text("A2"), NoneV>> }

\* level, name
LevelRowChoices ==
    { <<NumV(0), Text("Root")>>, <<NumV(1), Text("Stage")>>,
      <<NumV(2), Text("Task X")>>, <<NumV(3), Text("Task Y")>>,
      <<NumV(-1), Text("Task Z")>>, <<NoneV, StrV(<<"\t", "\t">> \o Chars("Indented"))>>,
      <<NumV(2), NoneV>> }

\* column 1, column 2 of a sheet without header
PlainRowChoices ==
    { <<Text("Design"), Text("Draw")>>, <<Text("Build"), NoneV>>,
      <<NoneV, Text("Test")>>, <<NumV(5), NumV(7)>>, <<Text("  "), NoneV>>,
      <<Text(" Plan "), Text("Do ")>> }

\* name, -, -, progress of a flat sheet under the header Task, Start, End, %
FlatRowChoices ==
    { <<Text("Design"), NoneV, NoneV, NumV(50)>>,
      <<Text("Build"), NoneV, NoneV, Text("100%")>>,
      <<Text("Test"), NoneV, NoneV, NumV(0)>>,
      <<Text("Ship"), NoneV, NoneV, Text("n/a")>>,
      <<Text("Review"), NoneV, NoneV, DateV(45000)>>,
      <<NoneV, NoneV, NoneV, NumV(10)>> }

IdHeader == <<Text("ID"), Text("Task"), Text("Start"), Text("End")>>
LevelHeader == <<Text("Level"), Text("Task"), Text("Start"), Text("End")>>
FlatHeader == <<Text("Task"), Text("Start"), Text("End"), Text("%")>>

StandardWorkbooks ==
    { Workbook(<<SCHEDULE_JA, INPUT_JA>>,
               <<(<<1, 2>> :> Text("Demo")) @@ GridSheet(rows, FirstDataRow, 2),
                 EmptySheet>>) :
        rows \in UpToMaxRows(IdRowChoices) }

StandardLikeWorkbooks ==
    { Workbook(<<SCHEDULE_JA \o Chars("2")>>, <<GridSheet(<<IdHeader>> \o rows, 1, 1)>>) :
        rows \in UpToMaxRows(IdRowChoices) }

MsProjectWorkbooks ==
    { Workbook(<<Chars("Tasks"), Chars("Resources")>>,
               <<GridSheet(<<LevelHeader>> \o rows, 1, 1), EmptySheet>>) :
        rows \in UpToMaxRows(LevelRowChoices) }

PlainWorkbooks ==
    { Workbook(<<Chars("Sheet1")>>, <<GridSheet(rows, 1, 1)>>) :
        rows \in UpToMaxRows(PlainRowChoices) }

FlatWorkbooks ==
    { Workbook(<<name>>, <<GridSheet(<<FlatHeader>> \o rows, 1, 1)>>) :
        name \in {Chars("Sheet1"), PLAN_JA \o <<"[sho]">>},
        rows \in UpToMaxRows(FlatRowChoices) }

ImportWorkbooks ==
    StandardWorkbooks \cup StandardLikeWorkbooks \cup MsProjectWorkbooks
        \cup PlainWorkbooks \cup FlatWorkbooks

Init ==
    /\ format_type = "auto"
    /\ workbook \in ImportWorkbooks
    /\ pc = "ready"
    /\ result = [kind |-> "pending"]

\* ExcelImporter.set_format_type
SetFormatType(ft) ==
    /\ pc = "ready"
    /\ format_type # ft
    /\ format_type' = ft
    /\ UNCHANGED <<workbook, pc, result>>

\* ExcelImporter.import_from_file
ImportFromFile ==
    /\ pc = "ready"
    /\ result' = import_from_file(format_type, workbook)
    /\ pc' = "done"
    /\ format_type' = SelectorAfter(format_type, workbook)
    /\ UNCHANGED workbook

Next ==
    \/ \E ft \in FormatChoices : SetFormatType(ft)
    \/ ImportFromFile

Spec == Init /\ [][Next]_vars

-----------------------------------------------------------------------------
(* What an import returned, read back against the sheet it was built from. *)

\* <<phase index, process index>> of every process of a project
ProcessRefs(project) ==
    UNION { {pi} \X (1..Len(project.phases[pi].processes)) :
              pi \in 1..Len(project.phases) }

\* the call returned a project
Succeeded == pc = "done" /\ result.kind = "Project"

\* the phases the importer made up under the name 'unclassified phase'
UnclassifiedPhases(project) ==
    { pi \in 1..Len(project.phases) :
        project.phases[pi].name = UNCLASSIFIED_PHASE /\ project.phases[pi].row = 0 }

\* C1: whenever import_from_file returns a project, whatever the variant and
\* the workbook, the project has at least one phase.
Cex_C1_SuccessHasPhase == Succeeded => Len(get_phases(result)) >= 1

\* the rows of the schedule sheet of the standard variant that have a name
\* and an identifier with a letter and a digit
ProcessShapedRows(schedule_sheet) ==
    { row \in FirstDataRow..find_last_row_with_data(schedule_sheet, 2) :
        /\ Truthy(cell(schedule_sheet, row, 2))
        /\ Truthy(cell(schedule_sheet, row, 3))
        /\ ProcessShaped(PyStr(cell(schedule_sheet, row, 2))) }

\* C2: in the standard variant no process row is dropped: the result has as
\* many processes as the sheet has process-shaped rows with a name, each such
\* row is a process of the result, and at most one 'unclassified' phase holds
\* the rows whose letters name no earlier phase row.
Cex_C2_OrphanNeverDropped ==
    (Succeeded /\ FormatUsed(format_type, workbook) = "standard") =>
        LET shaped == ProcessShapedRows(SheetOf(workbook, SCHEDULE_JA))
        IN  /\ Cardinality(ProcessRefs(result)) = Cardinality(shaped)
            /\ \A row \in shaped :
                   \E ref \in ProcessRefs(result) :
                       result.phases[ref[1]].processes[ref[2]].row = row
            /\ Cardinality(UnclassifiedPhases(result)) <= 1

\* The processes of the result are under the phase their identifier names:
\* for a process built from a row whose letters are the identifier of an
\* earlier phase row, the phase holding it was built from a row with that
\* identifier (sheet, id_col: where the identifiers are; first: the first
\* data row).
UnderNamedPhase(project, sheet, id_col, first) ==
    \A ref \in ProcessRefs(project) :
        LET phase == project.phases[ref[1]]
            process == phase.processes[ref[2]]
            phase_id == Letters(PyStr(cell(sheet, process.row, id_col)))
        IN  (\E r \in first..(process.row - 1) :
                /\ Truthy(cell(sheet, r, id_col))
                /\ PyStr(cell(sheet, r, id_col)) = phase_id)
            => /\ phase.row # 0
               /\ PyStr(cell(sheet, phase.row, id_col)) = phase_id

\* C3: in both identifier builds (standard, standard_like) every process is
\* under the phase whose identifier equals the letters of the process
\* identifier, whichever phase row was read last (rows A, B, A1: A1 under A).
Cex_C3_ProcessUnderItsPhase ==
    /\ (Succeeded /\ FormatUsed(format_type, workbook) = "standard") =>
           UnderNamedPhase(result, SheetOf(workbook, SCHEDULE_JA), 2, FirstDataRow)
    /\ (Succeeded /\ FormatUsed(format_type, workbook) = "standard_like") =>
           LET schedule_sheet == ScheduleLikeSheet(workbook)
               header_row == _find_header_row(schedule_sheet)
               indent_column ==
                   HierarchyColumn(schedule_sheet, header_row, IndentKeywords, TRUE)
           IN  (header_row # 0 /\ indent_column # 0) =>
                   UnderNamedPhase(result, schedule_sheet, indent_column, header_row + 1)

\* the row has a name the level build accepts (lines 525-534)
NamedRow(sheet, row, column_indices) ==
    LET name_value == RoleCell(sheet, row, column_indices, "name")
    IN  Truthy(name_value) /\ strip(PyStr(name_value)) # <<>>

\* The parent the level build is said to give a process row: the nearest
\* earlier phase row (level 0 or 1) whose level is less than the level of the
\* row; 0 when there is none (the 'unclassified' phase).
ClaimedParentRow(sheet, header_row, column_indices, level_column, row) ==
    LET level == get_level(sheet, row, column_indices, level_column)
        above == { r \in (header_row + 1)..(row - 1) :
                     /\ NamedRow(sheet, r, column_indices)
                     /\ get_level(sheet, r, column_indices, level_column) \in {0, 1}
                     /\ get_level(sheet, r, column_indices, level_column) < level }
    IN  IF above = {} THEN 0 ELSE SetMax(above)

\* C4: in the level build every named row with level 0 or 1 is a phase, every
\* other named row is a process, and each process is under the nearest
\* earlier phase row of lower level (after phase rows at level 1 then level
\* 0, a level 2 process is under the level 0 phase), under the 'unclassified'
\* phase only when no such phase row precedes it.
Cex_C4_NearestLowerPhase ==
    (Succeeded /\ FormatUsed(format_type, workbook) = "ms_project") =>
        LET tasks_sheet == TasksSheet(workbook)
            header_row == _find_header_row(tasks_sheet)
            column_indices == _get_column_indices(tasks_sheet, header_row)
            level_column ==
                HierarchyColumn(tasks_sheet, header_row, LevelKeywords, FALSE)
            named == { row \in (header_row + 1)..max_row(tasks_sheet) :
                         NamedRow(tasks_sheet, row, column_indices) }
        IN  (header_row # 0 /\ named # {}) =>
              /\ \A row \in named :
                    IF get_level(tasks_sheet, row, column_indices, level_column)
                           \in {0, 1}
                    THEN \E pi \in 1..Len(result.phases) : result.phases[pi].row = row
                    ELSE \E ref \in ProcessRefs(result) :
                            result.phases[ref[1]].processes[ref[2]].row = row
              /\ \A ref \in ProcessRefs(result) :
                    result.phases[ref[1]].row =
                        ClaimedParentRow(tasks_sheet, header_row, column_indices,
                            level_column, result.phases[ref[1]].processes[ref[2]].row)

\* C5: after a level build or a standard_like identifier build the project
\* has at most one 'unclassified' phase, whatever levels the rows carry
\* (negative ones included), so all orphans are under the same phase.
Cex_C5_OneUnclassifiedPhase ==
    (Succeeded /\ FormatUsed(format_type, workbook) \in {"ms_project", "standard_like"})
        => Cardinality(UnclassifiedPhases(result)) <= 1

\* something of the project was built from a row of the sheet
BuiltFromRows(project) ==
    \E pi \in 1..Len(project.phases) :
        project.phases[pi].row # 0 \/ project.phases[pi].processes # <<>>

\* C6: when no row of the consulted sheet gives a phase, a process or a task
\* (an empty sheet), import_from_file returns failure: a returned project is
\* never just the empty 'main phase' the importer made up.
Cex_C6_NoDataFails == Succeeded => BuiltFromRows(result)

-----------------------------------------------------------------------------
(* The flat import under a header row on its own: sheets with the header   *)
(* Task, Start, End, % and rows whose progress cell is a number, a text or *)
(* a date, read by the simple or by the standard_like importer.            *)

MaxFlatRows == 2        \* data rows per sheet in the flat import runs

\* name, -, -, progress
ProgressRowChoices ==
    { <<Text("Design"), NoneV, NoneV, NumV(50)>>,
      <<Text("Build"), NoneV, NoneV, Text("100%")>>,
      <<Text("Test"), NoneV, NoneV, NumV(0)>>,
      <<Text("Ship"), NoneV, NoneV, Text("50%")>>,
      <<Text("Pack"), NoneV, NoneV, NumV(100)>>,
      <<Text("Draft"), NoneV, NoneV, HalfV(0)>>,
      <<Text("Plan"), NoneV, NoneV, Text("n/a")>>,
      <<Text("Review"), NoneV, NoneV, DateV(45000)>> }

ProgressWorkbooks ==
    { Workbook(<<name>>, <<GridSheet(<<FlatHeader>> \o rows, 1, 1)>>) :
        name \in {Chars("Sheet1"), PLAN_JA \o <<"[sho]">>},
        rows \in UNION { RowLists(ProgressRowChoices, k) : k \in 0..MaxFlatRows } }

InitFlat ==
    /\ format_type = "auto"
    /\ workbook \in ProgressWorkbooks
    /\ pc = "ready"
    /\ result = [kind |-> "pending"]

SpecFlat == InitFlat /\ [][Next]_vars

\* the sheet the importer of the variant in use reads
SheetRead ==
    IF FormatUsed(format_type, workbook) = "simple" THEN MainSheet(workbook)
    ELSE ScheduleLikeSheet(workbook)

\* the import went through the flat import under a header row
FlatStructured ==
    /\ FormatUsed(format_type, workbook) \in {"simple", "standard_like"}
    /\ _find_header_row(SheetRead) # 0
    /\ FormatUsed(format_type, workbook) = "standard_like"
          => HierarchyColumn(SheetRead, _find_header_row(SheetRead),
                             IndentKeywords, TRUE) = 0

\* the progress cell of the row a process was built from
ProgressCellOf(process) ==
    RoleCell(SheetRead, process.row,
             _get_column_indices(SheetRead, _find_header_row(SheetRead)), "progress")

\* twice the value p of a progress cell holding a number or a numeric text
\* with or without percent sign; -1 for any other cell
TwiceP(v) ==
    CASE v.t = "num" -> 2 * v.n + v.f
      [] v.t = "str" /\ ParseFloat(RemoveChar(v.s, "%")).ok ->
            2 * ParseFloat(RemoveChar(v.s, "%")).n
                + ParseFloat(RemoveChar(v.s, "%")).f
      [] OTHER -> -1

StatusCount(process, status) ==
    Cardinality({ k \in 1..Len(process.tasks) : process.tasks[k].status = status })

\* the tasks the claim gives a process whose progress is p
ReconciledAsClaimed(process, twice_p) ==
    /\ (0 < twice_p /\ twice_p < 200) =>
          /\ Len(process.tasks) = 2
          /\ StatusCount(process, "COMPLETED") = 1
          /\ StatusCount(process, "NOT_STARTED") = 1
    /\ twice_p = 0 =>
          /\ StatusCount(process, "COMPLETED") = 0
          /\ Len(process.tasks) <= 1
          /\ \A k \in 1..Len(process.tasks) :
                process.tasks[k] =
                    Task(StrV(process.name.s \o REMAINING_PART_SUFFIX), "NOT_STARTED")
    /\ twice_p = 200 =>
          /\ Len(process.tasks) = 1
          /\ StatusCount(process, "COMPLETED") = 1

-----------------------------------------------------------------------------
(* parse_excel_date on its own: a sheet whose cell A1 holds the value to   *)
(* convert; where A1 is a date written as text in one of the formats, B1   *)
(* holds the same date as a date cell.                                     *)

MaxMonth == 3       \* months of the dates written as text
MaxDay == 13        \* days of the month of the dates written as text

\* the serial day of a date
SerialOf(year, month, day) == ymd2ord(year, month, day) - ymd2ord(1899, 12, 30)

WrittenDates ==
    { datetime(year, month, day, 0, 0, 0) :
        year \in {2023, 2024}, month \in 1..MaxMonth, day \in 1..MaxDay }

SerialChoices ==
    { 44653, 44621, 45000, 60, 1, 0, -1, SerialOf(9999, 12, 31),
      SerialOf(9999, 12, 31) + 1, SerialOf(1, 1, 1), SerialOf(1, 1, 1) - 1 }

OtherTexts ==
    { Text("N/A"), Text(""), Text("  "), Text("2023.4.1"), Text("2023.2.30"),
      Text("2023/02/30"), Text(" 2023-4-1 "), Text("13/13/2023") }

DateSheets ==
    { (<<1, 1>> :> StrV(strftime(d, formats[k])))
        @@ (<<1, 2>> :> DateV(SerialOf(d.year, d.month, d.day))) :
        d \in WrittenDates, k \in 1..Len(formats) }
    \cup { (<<1, 1>> :> v) : v \in OtherTexts \cup {DateV(45000)} }
    \cup { (<<1, 1>> :> [t |-> "num", s |-> <<>>, n |-> n, f |-> f]) :
             n \in SerialChoices, f \in {0, 1} }
    \cup { EmptySheet }

InitDate ==
    /\ format_type = "auto"
    /\ workbook \in { Workbook(<<Chars("Sheet1")>>, <<sheet>>) : sheet \in DateSheets }
    /\ pc = "ready"
    /\ result = NoneDate

\* start_date = parse_excel_date(sheet.cell(...).value)
ParseExcelDate ==
    /\ pc = "ready"
    /\ result' = parse_excel_date(cell(ActiveSheet(workbook), 1, 1))
    /\ pc' = "done"
    /\ UNCHANGED <<format_type, workbook>>

NextDate == ParseExcelDate

SpecDate == InitDate /\ [][NextDate]_vars

\* the value converted and, for a date written as text, the date written
Converted == cell(ActiveSheet(workbook), 1, 1)
Written == cell(ActiveSheet(workbook), 1, 2)

\* C15 as stated: the serial number 44653 is converted to 2022-03-01.
Cex_C15_SerialExample ==
    (pc = "done" /\ Converted = NumV(44653)) =>
        result = datetime(2022, 3, 1, 0, 0, 0)

\* C15, amended: the serial number 44653 is converted to the calendar date
\* 2022-04-02, which is 44653 days after 1899-12-30.
Thm_C15_SerialExample ==
    (pc = "done" /\ Converted = NumV(44653)) =>
        /\ result = datetime(2022, 4, 2, 0, 0, 0)
        /\ ymd2ord(result.year, result.month, result.day)
              - ymd2ord(1899, 12, 30) = 44653

Wit_C15_SerialConverted ==
    pc = "done" /\ Converted = NumV(44653) /\ result.t = "datetime"

\* C16: every number v in the representable range is converted to 1899-12-30
\* plus floor(v) whole days, the fraction of v contributing nothing (the
\* result is the midnight of that day).
Cex_C16_WholeDays ==
    (pc = "done" /\ Converted.t = "num"
        /\ Converted.n >= SerialOf(1, 1, 1) /\ Converted.n <= SerialOf(9999, 12, 31)) =>
        result = FromOrdinal(ymd2ord(1899, 12, 30) + Converted.n, 0)

\* C17: a date d written as text in any format of the list is converted back
\* to d, the day-first formats with a day of 12 or less included.
Cex_C17_RoundTrip ==
    (pc = "done" /\ Converted.t = "str" /\ Written.t = "date"
        /\ \E k \in 1..Len(formats) :
              Converted.s = strftime(DateOfCell(Written), formats[k])) =>
        result = DateOfCell(Written)

-----------------------------------------------------------------------------
(* The builders on rows that carry dates, hours and a progress: the four   *)
(* kinds of workbook of the main specification, each process row with its  *)
(* start, end, estimated hours, actual hours and progress cells.           *)

MaxFieldRows == 3       \* data rows per sheet in the runs on full rows

\* start, end, estimated hours, actual hours, progress
NoFields == <<NoneV, NoneV, NoneV, NoneV, NoneV>>

FieldChoices ==
    { NoFields,
      <<Text("2023/04/01"), Text("N/A"), NumV(8), Text("7.5"), NumV(50)>>,
      <<DateV(45000), NumV(45010), Text("n/a"), Text("3"), NoneV>>,
      <<Text("N/A"), HalfV(45000), HalfV(2), Text(" 7 "), Text("100%")>>,
      <<NoneV, Text("N/A"), NoneV, NoneV, DateV(45000)>> }

FieldHeader == <<Text("Start"), Text("End"), Text("Estimate"), Text("Actual"), Text("%")>>

\* columns B to J of the schedule sheet: identifier, name, assignee, -, then
\* the fields (the progress in column J, which the standard importer does
\* not read)
StandardFieldRows ==
    { <<Text("A"), Text("Phase1"), NoneV, NoneV>> \o NoFields,
      <<Text("B"), Text("Phase2"), NoneV, NoneV>> \o NoFields }
    \cup { <<Text("A1"), Text("Task X"), Text("Y"), NoneV>> \o fields :
             fields \in FieldChoices }

IdFieldRows ==
    { <<Text("A"), Text("Phase1")>> \o NoFields,
      <<Text("B"), Text("Phase2")>> \o NoFields }
    \cup { <<Text("A1"), Text("Task X")>> \o fields : fields \in FieldChoices }

LevelFieldRows ==
    { <<NumV(1), Text("Stage")>> \o NoFields }
    \cup { <<NumV(2), Text("Task X")>> \o fields : fields \in FieldChoices }

FlatFieldRows == { <<Text("Design")>> \o fields : fields \in FieldChoices }

UpToMaxFieldRows(S) == UNION { RowLists(S, k) : k \in 0..MaxFieldRows }

FieldWorkbooks ==
    { Workbook(<<SCHEDULE_JA, INPUT_JA>>,
               <<(<<1, 2>> :> Text("Demo")) @@ GridSheet(rows, FirstDataRow, 2),
                 EmptySheet>>) :
        rows \in UpToMaxFieldRows(StandardFieldRows) }
    \cup
    { Workbook(<<SCHEDULE_JA \o Chars("2")>>,
               <<GridSheet(<<<<Text("ID"), Text("Task")>> \o FieldHeader>> \o rows,
                           1, 1)>>) :
        rows \in UpToMaxFieldRows(IdFieldRows) }
    \cup
    { Workbook(<<Chars("Tasks"), Chars("Resources")>>,
               <<GridSheet(<<<<Text("Level"), Text("Task")>> \o FieldHeader>> \o rows,
                           1, 1),
                 EmptySheet>>) :
        rows \in UpToMaxFieldRows(LevelFieldRows) }
    \cup
    { Workbook(<<name>>,
               <<GridSheet(<<<<Text("Task")>> \o FieldHeader>> \o rows, 1, 1)>>) :
        name \in {Chars("Sheet1"), PLAN_JA \o <<"[sho]">>},
        rows \in UpToMaxFieldRows(FlatFieldRows) }

InitFields ==
    /\ format_type = "auto"
    /\ workbook \in FieldWorkbooks
    /\ pc = "ready"
    /\ result = [kind |-> "pending"]

SpecFields == InitFields /\ [][Next]_vars

\* C12: in the Standard variant, a process row that carries a progress p with
\* 0 < p < 100 and has no task sheet of its own is imported with exactly two
\* synthetic tasks (scenario A: rows A, B and A1 'Task X' of assignee 'Y' and
\* progress 50 give phase A the process 'Task X' with two tasks).
Cex_C12_StandardProgress ==
    (Succeeded /\ FormatUsed(format_type, workbook) = "standard") =>
        \A ref \in ProcessRefs(result) :
            LET process == result.phases[ref[1]].processes[ref[2]]
                twice_p == TwiceP(cell(SheetOf(workbook, SCHEDULE_JA), process.row, 10))
                id_str == PyStr(cell(SheetOf(workbook, SCHEDULE_JA), process.row, 2))
            IN  (0 < twice_p /\ twice_p < 200 /\ ~InList(id_str, workbook.sheetnames))
                    => Len(process.tasks) = 2

\* the rows under the header of the sheet read that carry a name
NamedFlatRows ==
    { row \in (_find_header_row(SheetRead) + 1)..max_row(SheetRead) :
        LET name_value == RoleCell(SheetRead, row,
                _get_column_indices(SheetRead, _find_header_row(SheetRead)), "name")
        IN  Truthy(name_value) /\ strip(PyStr(name_value)) # <<>> }

\* the progress cell of a row
ProgressCellAt(row) ==
    RoleCell(SheetRead, row,
             _get_column_indices(SheetRead, _find_header_row(SheetRead)), "progress")

\* a progress cell that is a text without numeric value or neither a number
\* nor a text
Anomalous(v) == v.t = "date" \/ (v.t = "str" /\ TwiceP(v) = -1)

\* C13: in the flat import under a header row, an anomaly of a progress cell
\* (unparsable text, or a value such as a date) never fails the import:
\* import_from_file returns a project that holds a process for every named
\* row, and the process of a row with such a cell has no synthetic task.
Cex_C13_ProgressAnomaly ==
    (pc = "done" /\ FlatStructured
        /\ \E row \in NamedFlatRows : Anomalous(ProgressCellAt(row))) =>
        /\ result.kind = "Project"
        /\ \A row \in NamedFlatRows :
              \E ref \in ProcessRefs(result) :
                  /\ result.phases[ref[1]].processes[ref[2]].row = row
                  /\ Anomalous(ProgressCellAt(row))
                        => result.phases[ref[1]].processes[ref[2]].tasks = <<>>

\* the sheet an import of the variant in use reads its rows from
RowsSheet ==
    CASE FormatUsed(format_type, workbook) = "standard" -> SheetOf(workbook, SCHEDULE_JA)
      [] FormatUsed(format_type, workbook) = "ms_project" -> TasksSheet(workbook)
      [] FormatUsed(format_type, workbook) = "simple" -> MainSheet(workbook)
      [] OTHER -> ScheduleLikeSheet(workbook)

\* the role columns of that sheet, its header row being found
RowsColumns == _get_column_indices(RowsSheet, _find_header_row(RowsSheet))

\* the column of the identifiers or levels of that sheet (0: none)
RowsHierarchyColumn ==
    CASE FormatUsed(format_type, workbook) = "ms_project" ->
            HierarchyColumn(RowsSheet, _find_header_row(RowsSheet), LevelKeywords, FALSE)
      [] FormatUsed(format_type, workbook) = "standard_like" ->
            HierarchyColumn(RowsSheet, _find_header_row(RowsSheet), IndentKeywords, TRUE)
      [] OTHER -> 0

\* row is a process row of the standard variant
StandardProcessRow(row) ==
    /\ row >= FirstDataRow
    /\ Truthy(cell(RowsSheet, row, 2)) /\ Truthy(cell(RowsSheet, row, 3))
    /\ ProcessShaped(PyStr(cell(RowsSheet, row, 2)))

\* row is a process row of a sheet with a header row
HeaderProcessRow(row) ==
    /\ row > _find_header_row(RowsSheet)
    /\ NamedRow(RowsSheet, row, RowsColumns)
    /\ FormatUsed(format_type, workbook) = "ms_project" =>
          /\ RowsHierarchyColumn # 0
          /\ get_level(RowsSheet, row, RowsColumns, RowsHierarchyColumn) \notin {0, 1}
    /\ (FormatUsed(format_type, workbook) = "standard_like" /\ RowsHierarchyColumn # 0) =>
          /\ Truthy(cell(RowsSheet, row, RowsHierarchyColumn))
          /\ ProcessShaped(PyStr(cell(RowsSheet, row, RowsHierarchyColumn)))

\* the process rows of the sheet read, for the four builders
ProcessRowsRead ==
    IF FormatUsed(format_type, workbook) = "standard"
    THEN IF InList(SCHEDULE_JA, workbook.sheetnames) /\ InList(INPUT_JA, workbook.sheetnames)
         THEN { row \in 1..max_row(RowsSheet) : StandardProcessRow(row) }
         ELSE {}
    ELSE IF FormatUsed(format_type, workbook) = "ms_project"
            /\ FirstSheetNamed(workbook, TaskSheetNames) = <<>>
    THEN {}
    ELSE IF _find_header_row(RowsSheet) = 0 THEN {}
    ELSE { row \in 1..max_row(RowsSheet) : HeaderProcessRow(row) }

\* the start (key "start_date") or end (key "end_date") cell of a row
DateCellAt(row, key) ==
    IF FormatUsed(format_type, workbook) = "standard"
    THEN cell(RowsSheet, row, IF key = "start_date" THEN 6 ELSE 7)
    ELSE RoleCell(RowsSheet, row, RowsColumns, key)

\* the result holds a process built from the row whose date of the key is
\* not set
AddedWithoutDate(row, key) ==
    /\ result.kind = "Project"
    /\ \E ref \in ProcessRefs(result) :
          /\ result.phases[ref[1]].processes[ref[2]].row = row
          /\ result.phases[ref[1]].processes[ref[2]][key] = NoneDate

\* C14: for every process row of every builder, when the start or the end
\* date cell cannot be parsed (or the role column is absent), the date of the
\* process stays unset, the process is still added to its phase and the
\* import still succeeds.
Cex_C14_UnparsableDate ==
    pc = "done" =>
        \A row \in ProcessRowsRead : \A key \in {"start_date", "end_date"} :
            parse_excel_date(DateCellAt(row, key)) = NoneDate
                => AddedWithoutDate(row, key)

\* the part of C14 that is about the dates: a process of the result built
\* from a row whose date cell cannot be parsed has that date unset
DatesStayUnset ==
    Succeeded =>
        \A ref \in ProcessRefs(result) : \A key \in {"start_date", "end_date"} :
            LET process == result.phases[ref[1]].processes[ref[2]]
            IN  (process.row \in ProcessRowsRead
                    /\ parse_excel_date(DateCellAt(process.row, key)) = NoneDate)
                    => process[key] = NoneDate

\* the estimated (key "estimated_hours") or actual (key "actual_hours") hours
\* cell of a row
HoursCellAt(row, key) ==
    IF FormatUsed(format_type, workbook) = "standard"
    THEN cell(RowsSheet, row, IF key = "estimated_hours" THEN 8 ELSE 9)
    ELSE RoleCell(RowsSheet, row, RowsColumns, key)

\* the hours the one rule of the claim gives a cell: a number as it is, a
\* text of digits with at most one point as its number, anything else 0.0
ClaimedHours(v) ==
    CASE v.t = "num" -> Hours(v.n, v.f)
      [] v.t = "str" /\ FirstAt(v.s, ".") > Len(v.s) /\ isdigit(v.s) ->
            Hours(ParseNat(v.s), 0)
      [] v.t = "str" /\ FirstAt(v.s, ".") <= Len(v.s)
            /\ isdigit(RemoveFirst(v.s, ".")) ->
            Hours(ParseFloat(v.s).n, ParseFloat(v.s).f)
      [] OTHER -> Hours(0, 0)

\* C18: in every builder an hours cell is coerced by the same rule: a number
\* is taken as it is, a text of digits with at most one decimal point is
\* converted to its number, any other or missing value gives 0.0.
Cex_C18_HoursRule ==
    Succeeded =>
        \A ref \in ProcessRefs(result) :
            \A key \in {"estimated_hours", "actual_hours"} :
                LET process == result.phases[ref[1]].processes[ref[2]]
                IN  process.row \in ProcessRowsRead
                        => process[key] = ClaimedHours(HoursCellAt(process.row, key))

-----------------------------------------------------------------------------
(* The progress cells of the level build, read back on the runs on full    *)
(* rows.                                                                   *)

\* a progress cell holding a number or a percent-suffixed text
PercentValued(v) ==
    \/ v.t = "num"
    \/ /\ v.t = "str" /\ Len(v.s) > 0 /\ v.s[Len(v.s)] = "%"
       /\ ParseFloat(RemoveChar(v.s, "%")).ok

\* the level build was used and gave the phases of the result
LevelBuilt ==
    /\ Succeeded
    /\ FormatUsed(format_type, workbook) = "ms_project"
    /\ FirstSheetNamed(workbook, TaskSheetNames) # <<>>
    /\ _find_header_row(RowsSheet) # 0
    /\ RowsHierarchyColumn # 0
    /\ \E i \in 1..Len(result.phases) : result.phases[i].row # 0

\* the synthetic tasks the rule gives a process of progress p
TasksAsClaimed(process, twice_p) ==
    /\ StatusCount(process, "COMPLETED") = (IF twice_p > 0 THEN 1 ELSE 0)
    /\ StatusCount(process, "NOT_STARTED") = (IF twice_p < 200 THEN 1 ELSE 0)
    /\ Len(process.tasks)
          = (IF twice_p > 0 THEN 1 ELSE 0) + (IF twice_p < 200 THEN 1 ELSE 0)

\* C25: in the level build every process row whose progress cell holds a
\* number or a percent-suffixed text of value p gets a Completed synthetic
\* task only if p > 0 and a NotStarted 'remaining' task only if p < 100, as in
\* the flat import ('50%' as text gives two tasks, p <= 0 no Completed task).
Cex_C25_LevelProgress ==
    LevelBuilt =>
        \A ref \in ProcessRefs(result) :
            PercentValued(RoleCell(RowsSheet, result.phases[ref[1]].processes[ref[2]].row,
                                   RowsColumns, "progress"))
                => TasksAsClaimed(result.phases[ref[1]].processes[ref[2]],
                       TwiceP(RoleCell(RowsSheet,
                                       result.phases[ref[1]].processes[ref[2]].row,
                                       RowsColumns, "progress")))

-----------------------------------------------------------------------------
(* The progress the domain model derives from the synthetic tasks of the   *)
(* flat import.                                                            *)

\* a progress strictly between 0 and 100
Partial(progress) == 0 < progress.num /\ progress.num < 100 * progress.den

\* the references of the processes whose progress cell holds a value p with
\* twice p in the range low..high
RefsOfProgress(project, low, high) ==
    { ref \in ProcessRefs(project) :
        /\ TwiceP(ProgressCellOf(project.phases[ref[1]].processes[ref[2]])) >= low
        /\ TwiceP(ProgressCellOf(project.phases[ref[1]].processes[ref[2]])) <= high }

\* C26: after the reconciliation of the flat import the progress the domain
\* model computes from the synthetic tasks is 0 when the imported p is 0, 100
\* when p is 100, and strictly between 0 and 100 when 0 < p < 100, with the
\* same value for every such p.
Thm_C26_DerivedProgress ==
    (Succeeded /\ FlatStructured) =>
        /\ \A ref \in RefsOfProgress(result, 0, 0) :
              result.phases[ref[1]].processes[ref[2]].progress = Ratio(0, 1)
        /\ \A ref \in RefsOfProgress(result, 200, 200) :
              result.phases[ref[1]].processes[ref[2]].progress = Ratio(100, 1)
        /\ \A ref \in RefsOfProgress(result, 1, 199) :
              /\ Partial(result.phases[ref[1]].processes[ref[2]].progress)
              /\ \A other \in RefsOfProgress(result, 1, 199) :
                    result.phases[other[1]].processes[other[2]].progress
                        = result.phases[ref[1]].processes[ref[2]].progress

\* a flat import returned two processes whose imported progress values are
\* different and both strictly between 0 and 100
Wit_C26_TwoPartials ==
    /\ Succeeded /\ FlatStructured
    /\ \E ref, other \in RefsOfProgress(result, 1, 199) :
          TwiceP(ProgressCellOf(result.phases[ref[1]].processes[ref[2]]))
              # TwiceP(ProgressCellOf(result.phases[other[1]].processes[other[2]]))

-----------------------------------------------------------------------------
(* The hours cells of the standard variant, read back on the runs on full  *)
(* rows.                                                                   *)

\* the hours an hours cell stands for on its own: the number, or the number
\* its text parses to, not below zero
HoursKept(process_hours, value) ==
    FloatOfCell(value).ok
        => process_hours = NotBelowZero(Hours(FloatOfCell(value).n, FloatOfCell(value).f))

\* C29: in the standard variant the estimated-hours cell and the actual-hours
\* cell of a row are coerced independently: a parseable value of one cell is
\* kept in the process whatever the other cell holds (an unparsable text of
\* estimated hours does not reset a parseable text of actual hours to 0.0,
\* and the other way round).
Cex_C29_IndependentHours ==
    (Succeeded /\ FormatUsed(format_type, workbook) = "standard") =>
        \A ref \in ProcessRefs(result) :
            /\ HoursKept(result.phases[ref[1]].processes[ref[2]].estimated_hours,
                         cell(SheetOf(workbook, SCHEDULE_JA),
                              result.phases[ref[1]].processes[ref[2]].row, 8))
            /\ HoursKept(result.phases[ref[1]].processes[ref[2]].actual_hours,
                         cell(SheetOf(workbook, SCHEDULE_JA),
                              result.phases[ref[1]].processes[ref[2]].row, 9))

-----------------------------------------------------------------------------
(* BulkExcelImporter.bulk_import_from_directory: the files found under the *)
(* subdirectories are imported one after the other.  In this part workbook *)
(* is the directory given, [is_dir, files], files being the files selected *)
(* in the order of the scan; pc is the number of the file the loop is at   *)
(* (0 before the call, Len(files) + 1 after it returned); result is the    *)
(* dict returned.  A file is [subdirectory, file_name, kind, workbook]:    *)
(* kind is "workbook" for a file openpyxl loads, "unreadable" for one it   *)
(* does not load, "raises" for one on which an exception leaves the call   *)
(* of the importer.                                                        *)

MaxFiles == 2       \* files selected in a directory

LEFT_MARK == "<lb>"     \* the opening bracket of the marker of a file name
RIGHT_MARK == "<rb>"    \* the closing bracket

STATUS_SUCCESS == "[seikou]"
STATUS_FAILED == "[shippai]"
STATUS_ERROR == "[eraa]"

\* s.replace(old, "")
RECURSIVE Remove(_, _)
Remove(s, old) ==
    IF old = <<>> \/ Len(s) < Len(old) THEN s
    ELSE IF SubSeq(s, 1, Len(old)) = old
    THEN Remove(SubSeq(s, Len(old) + 1, Len(s)), old)
    ELSE <<Head(s)>> \o Remove(Tail(s), old)

\* file_name without the extensions, as lines 89 removes them
WithoutExtension(file_name) ==
    Remove(Remove(Remove(file_name, Chars(".xlsx")), Chars(".xls")), Chars(".xlsm"))

\* lines 91-95: the bracketed part of the name is removed
WithoutMarker(clean_name) ==
    IF FirstAt(clean_name, LEFT_MARK) <= Len(clean_name)
       /\ FirstAt(clean_name, RIGHT_MARK) <= Len(clean_name)
    THEN strip(Remove(clean_name,
                      SubSeq(clean_name, FirstAt(clean_name, LEFT_MARK),
                             FirstAt(clean_name, RIGHT_MARK))))
    ELSE clean_name

\* clean_name or subdir
NameFromFile(file) ==
    IF WithoutMarker(WithoutExtension(file.file_name)) # <<>>
    THEN StrV(WithoutMarker(WithoutExtension(file.file_name)))
    ELSE StrV(file.subdirectory)

\* A variant of the renaming: the name of the file replaces every default
\* name of the importers.
Renamed_any_default(project, file) ==
    IF project.name \in {DEFAULT_NAME_STANDARD, DEFAULT_NAME_MS_PROJECT,
                         DEFAULT_NAME_SIMPLE, DEFAULT_NAME_STANDARD_LIKE}
       \/ ~Truthy(project.name)
    THEN [project EXCEPT !.name = NameFromFile(file)]
    ELSE project

\* lines 86-96: the project named after the file when its name is the default
\* name of the standard importer or is empty
Renamed(project, file) ==
    IF project.name = DEFAULT_NAME_STANDARD \/ ~Truthy(project.name)
    THEN [project EXCEPT !.name = NameFromFile(file)]
    ELSE project

\* the note 'imported from file ... of subdirectory ...'
ImportNote(file) ==
    <<"[sabudirekutori]", " ", "'">> \o file.subdirectory
        \o <<"'", " ", "[no]", "[fairu]", " ", "'">> \o file.file_name
        \o <<"'", " ", "[kara]", "[inpooto]">>

\* lines 98-102
Described(project, file) ==
    IF ~Truthy(project.description) \/ project.description = DESCRIPTION_STANDARD
    THEN [project EXCEPT !.description = StrV(ImportNote(file))]
    ELSE [project EXCEPT !.description =
            StrV(@.s \o <<"\n", "\n">> \o ImportNote(file))]

\* the entry of a file in details, before its import
ImportResult(file) ==
    [file_path |-> file.subdirectory \o <<"/">> \o file.file_name,
     file_name |-> file.file_name,
     subdirectory |-> file.subdirectory]

\* what the call of the importer gives for a file
ImportOutcome(ft, file) ==
    CASE file.kind = "workbook" -> import_from_file(ft, file.workbook)
      [] file.kind = "unreadable" -> NoneResult
      [] OTHER -> RaisedResult

\* lines 104-108: a project was returned
Imported(res, file, project) ==
    [res EXCEPT !.success_count = @ + 1,
                !.projects = Append(@, project),
                !.details = Append(@,
                    ImportResult(file) @@
                    [status |-> STATUS_SUCCESS, project_name |-> project.name,
                     phase_count |-> Len(get_phases(project))])]

\* A variant of the loop body: a file whose import raised gets no entry.
AfterFile_error_unrecorded(res, file, outcome) ==
    CASE outcome.kind = "Project" ->
            Imported(res, file, Described(Renamed(outcome, file), file))
      [] outcome.kind = "None" ->
            [res EXCEPT !.fail_count = @ + 1,
                        !.details = Append(@,
                            ImportResult(file) @@ [status |-> STATUS_FAILED])]
      [] OTHER -> [res EXCEPT !.fail_count = @ + 1]

\* lines 73-119: the body of the loop for one file, outcome being what the
\* call of the importer gave
AfterFile(res, file, outcome) ==
    CASE outcome.kind = "Project" ->
            Imported(res, file, Described(Renamed(outcome, file), file))
      [] outcome.kind = "None" ->
            [res EXCEPT !.fail_count = @ + 1,
                        !.details = Append(@,
                            ImportResult(file) @@ [status |-> STATUS_FAILED])]
      [] OTHER ->
            [res EXCEPT !.fail_count = @ + 1,
                        !.details = Append(@,
                            ImportResult(file) @@ [status |-> STATUS_ERROR])]

\* the sheets of the files: a schedule sheet with or without a name in B1,
\* sheets of short texts (no project name is found on them), a sheet with a
\* longer text (taken as the project name)
ScheduleRows == GridSheet(<<<<Text("A"), Text("Ph1")>>>>, FirstDataRow, 2)
ShortRows == GridSheet(<<<<Text("Do")>>, <<Text("Fix")>>>>, 1, 1)
LongRows == GridSheet(<<<<Text("Design")>>, <<Text("Fix")>>>>, 1, 1)

FileChoices ==
    { [subdirectory |-> Chars("s1"), kind |-> "workbook",
       file_name |-> <<LEFT_MARK>> \o Chars("Gantt") \o <<RIGHT_MARK>> \o Chars("Alpha.xlsx"),
       workbook |-> Workbook(<<SCHEDULE_JA, INPUT_JA>>,
                             <<(<<1, 2>> :> Text("Demo")) @@ ScheduleRows, EmptySheet>>)],
      [subdirectory |-> Chars("s1"), kind |-> "workbook",
       file_name |-> <<LEFT_MARK>> \o Chars("Gantt Chart") \o <<RIGHT_MARK>> \o Chars(" Beta.xlsx"),
       workbook |-> Workbook(<<SCHEDULE_JA, INPUT_JA>>, <<ScheduleRows, EmptySheet>>)],
      [subdirectory |-> Chars("s2"), kind |-> "workbook",
       file_name |-> <<LEFT_MARK>> \o Chars("Gantt") \o <<RIGHT_MARK>> \o Chars(".xlsx"),
       workbook |-> Workbook(<<SCHEDULE_JA, INPUT_JA>>, <<ScheduleRows, EmptySheet>>)],
      [subdirectory |-> Chars("s2"), kind |-> "workbook",
       file_name |-> <<LEFT_MARK>> \o Chars("Gantt") \o <<RIGHT_MARK>> \o Chars("Gamma.xls"),
       workbook |-> Workbook(<<Chars("Sheet1")>>, <<ShortRows>>)],
      [subdirectory |-> Chars("s2"), kind |-> "workbook",
       file_name |-> <<LEFT_MARK>> \o Chars("Gantt") \o <<RIGHT_MARK>> \o Chars("Delta.xlsm"),
       workbook |-> Workbook(<<Chars("Tasks"), Chars("Resources")>>,
                             <<ShortRows, EmptySheet>>)],
      [subdirectory |-> Chars("s3"), kind |-> "workbook",
       file_name |-> <<LEFT_MARK>> \o Chars("GanttEps.xlsx"),
       workbook |-> Workbook(<<PLAN_JA \o <<"[sho]">>>>, <<ShortRows>>)],
      [subdirectory |-> Chars("s3"), kind |-> "workbook",
       file_name |-> <<LEFT_MARK>> \o Chars("Gantt") \o <<RIGHT_MARK>> \o Chars("Zeta.xlsx"),
       workbook |-> Workbook(<<Chars("Sheet1")>>, <<LongRows>>)],
      [subdirectory |-> Chars("s3"), kind |-> "workbook",
       file_name |-> <<LEFT_MARK>> \o Chars("Gantt") \o <<RIGHT_MARK>> \o Chars("Eta.xlsx"),
       workbook |-> Workbook(<<SCHEDULE_JA, INPUT_JA>>, <<EmptySheet, EmptySheet>>)],
      [subdirectory |-> Chars("s3"), kind |-> "workbook",
       file_name |-> <<LEFT_MARK>> \o Chars("Gantt") \o <<RIGHT_MARK>> \o Chars("Kappa.xlsm"),
       workbook |-> Workbook(<<SCHEDULE_JA, INPUT_JA>>, <<ScheduleRows, EmptySheet>>)],
      [subdirectory |-> Chars("s4"), kind |-> "unreadable",
       file_name |-> <<LEFT_MARK>> \o Chars("Gantt") \o <<RIGHT_MARK>> \o Chars("Theta.xls")],
      [subdirectory |-> Chars("s4"), kind |-> "raises",
       file_name |-> <<LEFT_MARK>> \o Chars("Gantt") \o <<RIGHT_MARK>> \o Chars("Iota.xlsx")] }

\* the lists of at most MaxFiles different files
FileLists ==
    { l \in UNION { RowLists(FileChoices, k) : k \in 0..MaxFiles } :
        \A i, j \in 1..Len(l) : i # j => l[i] # l[j] }

InitBulk ==
    /\ format_type = "auto"
    /\ workbook \in { [is_dir |-> TRUE, files |-> l] : l \in FileLists }
                        \cup { [is_dir |-> FALSE, files |-> <<>>] }
    /\ pc = 0
    /\ result = [success_count |-> 0, fail_count |-> 0, details |-> <<>>,
                 projects |-> <<>>]

\* BulkExcelImporter.set_format_type
BulkSetFormatType(ft) ==
    /\ pc = 0
    /\ format_type # ft
    /\ format_type' = ft
    /\ UNCHANGED <<workbook, pc, result>>

\* lines 41-71: the call, up to the first file
BulkStart ==
    /\ pc = 0
    /\ result' = IF workbook.is_dir THEN result
                 ELSE result @@ [error |-> "[direkutori]"]
    /\ pc' = 1
    /\ UNCHANGED <<format_type, workbook>>

\* lines 73-119: one file of the loop
BulkImportFile ==
    /\ pc >= 1 /\ pc <= Len(workbook.files)
    /\ result' = AfterFile(result, workbook.files[pc],
                           ImportOutcome(format_type, workbook.files[pc]))
    /\ pc' = pc + 1
    /\ format_type' = IF workbook.files[pc].kind = "workbook"
                      THEN SelectorAfter(format_type, workbook.files[pc].workbook)
                      ELSE format_type
    /\ UNCHANGED workbook

NextBulk ==
    \/ \E ft \in FormatChoices : BulkSetFormatType(ft)
    \/ BulkStart
    \/ BulkImportFile

SpecBulk == InitBulk /\ [][NextBulk]_vars

\* the call returned
BulkReturned == pc = Len(workbook.files) + 1

\* C19: in a batch import over any list of selected files, the failure of a
\* file (None returned, or an exception) never keeps the files after it from
\* being processed: when the call returns every selected file has exactly one
\* entry in details, success_count + fail_count is the number of entries and
\* projects has exactly success_count elements.
Thm_C19_BatchReport ==
    /\ result.success_count + result.fail_count = Len(result.details)
    /\ Len(result.projects) = result.success_count
    /\ pc >= 1 => Len(result.details) = pc - 1
    /\ BulkReturned =>
          /\ Len(result.details) = Len(workbook.files)
          /\ \A i \in 1..Len(workbook.files) :
                Cardinality({ k \in 1..Len(result.details) :
                    result.details[k].file_path
                        = ImportResult(workbook.files[i]).file_path }) = 1

\* a batch returned in which a file that failed is followed by a file that
\* was imported
Wit_C19_FailureThenSuccess ==
    /\ BulkReturned
    /\ \E i, j \in 1..Len(result.details) :
          /\ i < j
          /\ result.details[i].status \in {STATUS_FAILED, STATUS_ERROR}
          /\ result.details[j].status = STATUS_SUCCESS

\* the default names of the four importers
DefaultNames ==
    { DEFAULT_NAME_STANDARD, DEFAULT_NAME_MS_PROJECT, DEFAULT_NAME_SIMPLE,
      DEFAULT_NAME_STANDARD_LIKE }

\* C20: in a batch import the name of a project is replaced by the name made
\* from the file name if and only if the importer did not find a name on the
\* sheets, that is exactly when the import fell back to the default name of
\* the variant used.
Cex_C20_FallbackName ==
    \A k \in 1..Len(result.details) :
        result.details[k].status = STATUS_SUCCESS =>
            LET file == workbook.files[k]
                imported == import_from_file(format_type, file.workbook)
            IN  (result.details[k].project_name = NameFromFile(file))
                    <=> (imported.name \in DefaultNames)

-----------------------------------------------------------------------------
(* The unstructured fallback of the simple importer, read back against the *)
(* main sheet.                                                             *)

\* the import was made by the simple importer and found no header row
UnstructuredRead ==
    /\ pc = "done"
    /\ FormatUsed(format_type, workbook) = "simple"
    /\ _find_header_row(MainSheet(workbook)) = 0

\* a cell holding a text that is not blank
NonBlank(v) == v.t = "str" /\ strip(v.s) # <<>>

\* the rows in which column 1 or column 2 holds such a text
PairRows(sheet) ==
    { r \in 1..max_row(sheet) :
        NonBlank(cell(sheet, r, 1)) \/ NonBlank(cell(sheet, r, 2)) }

\* the process the claim gives the row of col1, col2
ProcessAsClaimed(process, col1, col2) ==
    /\ Len(process.tasks) = 1
    /\ IF NonBlank(col2)
       THEN /\ process.name = StrV(strip(IF NonBlank(col1) THEN col1.s ELSE col2.s))
            /\ process.tasks[1].name = StrV(strip(col2.s))
       ELSE /\ process.name = StrV(strip(col1.s))
            /\ process.tasks[1].name = StrV(strip(col1.s) \o DEFAULT_TASK_SUFFIX)

\* the processes are those of the rows of PairRows, one each, in row order
OnePerPairRow(processes, sheet) ==
    /\ Len(processes) = Cardinality(PairRows(sheet))
    /\ \A i \in 1..Len(processes) :
          /\ processes[i].row \in PairRows(sheet)
          /\ ProcessAsClaimed(processes[i], cell(sheet, processes[i].row, 1),
                              cell(sheet, processes[i].row, 2))
          /\ \A j \in 1..Len(processes) :
                i < j => processes[i].row < processes[j].row

\* C21: when the simple importer finds no header row, the project has
\* exactly one phase, the main phase, and exactly one process per row in
\* which column 1 or column 2 holds a non-blank text: named after column 1
\* (column 2 when column 1 is blank) with one task named after column 2 when
\* column 2 is non-blank, named after column 1 with one default task when
\* only column 1 is; the other rows give nothing.
Thm_C21_UnstructuredFallback ==
    UnstructuredRead =>
        /\ result.kind = "Project"
        /\ Len(result.phases) = 1
        /\ result.phases[1].name = MAIN_PHASE
        /\ OnePerPairRow(result.phases[1].processes, MainSheet(workbook))

\* an unstructured import of a sheet with a row of two texts, a row with
\* column 1 only, and a row of numbers that gives nothing
Wit_C21_ThreeKindsOfRow ==
    /\ UnstructuredRead
    /\ result.kind = "Project"
    /\ Len(result.phases[1].processes) = 2
    /\ \E r \in 1..max_row(MainSheet(workbook)) :
          /\ r \notin PairRows(MainSheet(workbook))
          /\ cell(MainSheet(workbook), r, 1).t = "num"
    /\ \E i, j \in 1..2 :
          /\ Len(result.phases[1].processes[i].name.s) > 0
          /\ NonBlank(cell(MainSheet(workbook), result.phases[1].processes[i].row, 1))
          /\ NonBlank(cell(MainSheet(workbook), result.phases[1].processes[i].row, 2))
          /\ ~NonBlank(cell(MainSheet(workbook), result.phases[1].processes[j].row, 2))

-----------------------------------------------------------------------------
(* The domain model at work: tasks are added to processes, removed from    *)
(* them, and change status.  In this part result is the heap of the        *)
(* objects: processes[p] has the list children (task ids) and the stored   *)
(* progress, tasks[t] has the status and parent (0: None) of task t; pc    *)
(* counts the calls made; format_type and workbook are not used.           *)

MaxTasks == 2       \* Task objects
MaxCalls == 3       \* calls made on the objects

ProcessIds == {1, 2}
TaskIds == 1..MaxTasks
TaskStatus == {"NOT_STARTED", "IN_PROGRESS", "COMPLETED", "IMPOSSIBLE"}

\* the statuses of the children of a process of the heap
ChildStatuses(children, tasks) == [k \in 1..Len(children) |-> tasks[children[k]].status]

\* Task(name, status=...) for each task, Process(name) for each process
InitProgress ==
    /\ format_type = "auto"
    /\ workbook = Workbook(<<>>, <<>>)
    /\ pc = 0
    /\ \E statuses \in [TaskIds -> TaskStatus] :
          result = [processes |-> [p \in ProcessIds |->
                                     [children |-> <<>>, progress |-> Ratio(0, 1)]],
                    tasks |-> [t \in TaskIds |->
                                 [status |-> statuses[t], parent |-> 0]]]

\* Process.add_task(task) on process p
ProcessAddTask(p, t) ==
    /\ pc < MaxCalls
    /\ pc' = pc + 1
    /\ result' =
          [processes |->
              [result.processes EXCEPT ![p] =
                  [children |-> Append(@.children, t),
                   progress |-> _update_progress(
                       ChildStatuses(Append(@.children, t), result.tasks))]],
           tasks |-> [result.tasks EXCEPT ![t].parent = p]]
    /\ UNCHANGED <<format_type, workbook>>

\* the list without its element at index i
Without(list, i) == SubSeq(list, 1, i - 1) \o SubSeq(list, i + 1, Len(list))

\* the index of the first child with the id (0: none)
FirstChild(children, t) ==
    IF \E i \in 1..Len(children) : children[i] = t
    THEN CHOOSE i \in 1..Len(children) :
            children[i] = t /\ \A j \in 1..(i - 1) : children[j] # t
    ELSE 0

\* Process.remove_task(task_id) on process p, task_id being the id of t
ProcessRemoveTask(p, t) ==
    /\ pc < MaxCalls
    /\ pc' = pc + 1
    /\ result' =
          IF FirstChild(result.processes[p].children, t) # 0
          THEN [processes |->
                   [result.processes EXCEPT ![p] =
                       [children |-> Without(@.children, FirstChild(@.children, t)),
                        progress |-> _update_progress(
                            ChildStatuses(Without(@.children, FirstChild(@.children, t)),
                                          result.tasks))]],
                tasks |-> [result.tasks EXCEPT ![t].parent = 0]]
          ELSE result
    /\ UNCHANGED <<format_type, workbook>>

\* the heap after the status of t is set and its parent, if any, updated
StatusUpdated(heap, t, status, tasks) ==
    [processes |->
        IF heap.tasks[t].parent # 0
        THEN [heap.processes EXCEPT ![heap.tasks[t].parent].progress =
                 _update_progress(
                     ChildStatuses(heap.processes[heap.tasks[t].parent].children, tasks))]
        ELSE heap.processes,
     tasks |-> tasks]

\* Task.update_status(status) on task t
TaskUpdateStatus(t, status) ==
    /\ pc < MaxCalls
    /\ pc' = pc + 1
    /\ result' = StatusUpdated(result, t, status,
                               [result.tasks EXCEPT ![t].status = status])
    /\ UNCHANGED <<format_type, workbook>>

NextProgress ==
    \/ \E p \in ProcessIds, t \in TaskIds : ProcessAddTask(p, t)
    \/ \E p \in ProcessIds, t \in TaskIds : ProcessRemoveTask(p, t)
    \/ \E t \in TaskIds, status \in TaskStatus : TaskUpdateStatus(t, status)

SpecProgress == InitProgress /\ [][NextProgress]_vars

\* 100 times the ratio of the Completed tasks to all the tasks of a list
CompletedOfAll(statuses) ==
    IF statuses = <<>> THEN Ratio(0, 1)
    ELSE Ratio(CountOf(statuses, "COMPLETED") * 100, Len(statuses))

\* C22: after any sequence of add_task, remove_task and update_status calls
\* the progress of a process is 100 times the ratio of its Completed tasks
\* to all the tasks it owns (0 when it owns none), whatever the statuses of
\* the other tasks (NotStarted, InProgress or Impossible).
Cex_C22_CompletedOfAll ==
    \A p \in ProcessIds :
        result.processes[p].progress
            = CompletedOfAll(ChildStatuses(result.processes[p].children, result.tasks))

-----------------------------------------------------------------------------
(* The identifier-pattern build run more than once on the rows of one      *)
(* workbook.  In this part pc is the number of runs made and result is the *)
(* list of the projects the runs built.                                    *)

MaxRuns == 2        \* runs of the build on one workbook

InitRebuild ==
    /\ format_type = "auto"
    /\ workbook \in StandardWorkbooks \cup StandardLikeWorkbooks
    /\ pc = 0
    /\ result = <<>>

\* A variant of the project a run builds into: the project of the run before
\* is used again.
BuiltInto_kept(built, default) ==
    IF built = <<>> THEN Project(default, DESCRIPTION_STANDARD)
    ELSE built[Len(built)]

\* the project a run builds into: the importers make a new Project for every
\* call (lines 141 and 347)
BuiltInto(built, default) == Project(default, DESCRIPTION_STANDARD)

\* the build of the schedule sheet of a standard_like workbook
StandardLikeBuild(project, schedule_sheet, header_row) ==
    _build_hierarchy_from_standard_like(project, schedule_sheet, header_row,
        _get_column_indices(schedule_sheet, header_row),
        HierarchyColumn(schedule_sheet, header_row, IndentKeywords, TRUE))

\* the identifier-pattern build of the workbook into a project: the one of the
\* standard importer when its two sheets are there, else the standard_like one
IdentifierBuild(wb, project) ==
    IF InList(SCHEDULE_JA, wb.sheetnames) /\ InList(INPUT_JA, wb.sheetnames)
    THEN _import_phases_and_processes(wb, project)
    ELSE StandardLikeBuild(project, ScheduleLikeSheet(wb),
                           _find_header_row(ScheduleLikeSheet(wb)))

\* one run of the build
BuildHierarchy ==
    /\ pc < MaxRuns
    /\ pc' = pc + 1
    /\ result' = Append(result,
                        IdentifierBuild(workbook,
                                        BuiltInto(result, DEFAULT_NAME_STANDARD)))
    /\ UNCHANGED <<format_type, workbook>>

NextRebuild == BuildHierarchy

SpecRebuild == InitRebuild /\ [][NextRebuild]_vars

\* the structure of a tree: its phases in order, each with the rows of its
\* processes in order
Structure(project) ==
    [i \in 1..Len(project.phases) |->
        [name |-> project.phases[i].name,
         row |-> project.phases[i].row,
         processes |-> [k \in 1..Len(project.phases[i].processes) |->
                          project.phases[i].processes[k].row]]]

-----------------------------------------------------------------------------
(* The format selector of the importer over the files of a batch.          *)

\* the entries of details up to entry k that report a success
SuccessesUpTo(details, k) ==
    Cardinality({ i \in 1..k : details[i].status = STATUS_SUCCESS })

\* entry k of details and its project are those of an import of the file on
\* an importer whose selector is ft and that imported nothing before
AsIfImportedFirst(res, k, file, ft) ==
    IF file.kind = "workbook" /\ import_from_file(ft, file.workbook).kind = "Project"
    THEN /\ res.details[k].status = STATUS_SUCCESS
         /\ res.projects[SuccessesUpTo(res.details, k)].phases
               = import_from_file(ft, file.workbook).phases
    ELSE res.details[k].status # STATUS_SUCCESS

\* C27: import_from_file never changes the format selector of the importer
\* (under 'auto' the detected variant is used for that call only), so in a
\* sequence of imports on one importer every file gets the variant and the
\* structure it would get if it were the first file imported on a new
\* importer with the same selector.
Thm_C27_SelectorKept ==
    /\ [][pc >= 1 => format_type' = format_type]_vars
    /\ [](pc >= 1 => \A k \in 1..Len(result.details) :
                        AsIfImportedFirst(result, k, workbook.files[k], format_type))

\* a batch under 'auto' returned two imported files of different variants
Wit_C27_TwoVariants ==
    /\ BulkReturned
    /\ format_type = "auto"
    /\ Len(result.projects) = 2
    /\ detect_format(workbook.files[1].workbook)
          # detect_format(workbook.files[2].workbook)

-----------------------------------------------------------------------------
(* The standard importer on workbooks with task sheets: next to the        *)
(* schedule and input sheets, a sheet named after a process identifier     *)
(* lists the tasks of that process in rows 6 to 17, columns B and C.       *)

MaxTaskRows == 4        \* rows of the schedule sheet in the runs with task sheets

\* identifier, name of a schedule row
TaskRowChoices ==
    { <<Text("A"), Text("Phase A")>>, <<Text("B"), Text("Phase B")>>,
      <<Text("A1"), Text("Task X")>>, <<Text("B1"), Text("Task X")>>,
      <<Text("B1"), Text("Task Y")>> }

\* name, status of the tasks of the sheets A1 and B1
TasksOfA1 ==
    GridSheet(<<<<Text("Draw"), StrV(<<"[kanryou]">>)>>, <<Text("Cut"), NoneV>>>>,
              FirstTaskRow, 2)
TasksOfB1 == GridSheet(<<<<Text("Check"), StrV(<<"[shinkouchuu]">>)>>>>, FirstTaskRow, 2)

TaskWorkbooks ==
    { Workbook(<<SCHEDULE_JA, INPUT_JA, Chars("A1")>> \o more.names,
               <<(<<1, 2>> :> Text("Demo")) @@ GridSheet(rows, FirstDataRow, 2),
                 EmptySheet, TasksOfA1>> \o more.sheets) :
        rows \in UNION { RowLists(TaskRowChoices, k) : k \in 0..MaxTaskRows },
        more \in { [names |-> <<>>, sheets |-> <<>>],
                   [names |-> <<Chars("B1")>>, sheets |-> <<TasksOfB1>>] } }

InitTasks ==
    /\ format_type = "auto"
    /\ workbook \in TaskWorkbooks
    /\ pc = "ready"
    /\ result = [kind |-> "pending"]

SpecTasks == InitTasks /\ [][Next]_vars

\* the identifier of a schedule row, as text
IdAt(schedule_sheet, row) == PyStr(cell(schedule_sheet, row, 2))

\* the identifier of the row is that of no other row of the sheet
OnlyRowOfId(schedule_sheet, row) ==
    \A other \in FirstDataRow..max_row(schedule_sheet) :
        (other # row /\ Truthy(cell(schedule_sheet, other, 2)))
            => IdAt(schedule_sheet, other) # IdAt(schedule_sheet, row)

\* the tasks listed on the sheet named after the identifier (none when there
\* is no such sheet)
TasksListedFor(wb, id_str) ==
    IF InList(id_str, wb.sheetnames)
    THEN SheetTasks(Process(StrV(<<>>), StrV(<<>>), 0), SheetOf(wb, id_str),
                    FirstTaskRow).tasks
    ELSE <<>>

\* C28: in the standard variant the tasks listed on the sheet named after a
\* process identifier X are attached to the process made from the schedule
\* row of identifier X and to no other process, even when two phases have
\* processes of the same name.
Cex_C28_TasksOfOwnSheet ==
    (Succeeded /\ FormatUsed(format_type, workbook) = "standard") =>
        \A ref \in ProcessRefs(result) :
            OnlyRowOfId(SheetOf(workbook, SCHEDULE_JA),
                        result.phases[ref[1]].processes[ref[2]].row)
                => result.phases[ref[1]].processes[ref[2]].tasks
                      = TasksListedFor(workbook,
                            IdAt(SheetOf(workbook, SCHEDULE_JA),
                                 result.phases[ref[1]].processes[ref[2]].row))

-----------------------------------------------------------------------------
(* The name the batch import makes from a file name, read back against the *)
(* file name.                                                              *)

\* text ends with the suffix
EndsWith(text, suffix) ==
    /\ Len(text) >= Len(suffix)
    /\ SubSeq(text, Len(text) - Len(suffix) + 1, Len(text)) = suffix

\* the file name without its extension, one of the three accepted ones
BaseName(file_name) ==
    IF EndsWith(file_name, Chars(".xlsx")) \/ EndsWith(file_name, Chars(".xlsm"))
    THEN SubSeq(file_name, 1, Len(file_name) - 5)
    ELSE IF EndsWith(file_name, Chars(".xls"))
    THEN SubSeq(file_name, 1, Len(file_name) - 4)
    ELSE file_name

\* the text without its leading bracketed marker, if it has one
AfterMarker(text) ==
    IF Len(text) > 0 /\ text[1] = LEFT_MARK /\ FirstAt(text, RIGHT_MARK) <= Len(text)
    THEN SubSeq(text, FirstAt(text, RIGHT_MARK) + 1, Len(text))
    ELSE text

\* the fallback name the claim gives a file (surrounding blanks left out)
ClaimedName(file) ==
    IF strip(AfterMarker(BaseName(file.file_name))) # <<>>
    THEN StrV(strip(AfterMarker(BaseName(file.file_name))))
    ELSE StrV(file.subdirectory)

\* C30: the fallback project name made from a file name is the file name
\* with its extension and its leading bracketed marker removed, nothing else
\* added or removed, for each of the extensions xlsx, xls and xlsm; the name
\* of the subdirectory is used only when that leaves an empty text.
Cex_C30_NameFromFileName ==
    \A k \in 1..Len(result.details) :
        (/\ result.details[k].status = STATUS_SUCCESS
         /\ import_from_file(format_type, workbook.files[k].workbook).name
               = DEFAULT_NAME_STANDARD)
            => result.details[k].project_name = ClaimedName(workbook.files[k])

====
